---------------------------- MODULE Spec2Model ----------------------------
(***************************************************************************)
(* The tactical decision layer of S-FSM: BaseFSM and the three concrete    *)
(* machines ACCFSM, LKAACCFSM and HighwayPilotFSM (src/fsm).               *)
(*                                                                         *)
(* Numbers.  The source computes with floats.  Here every length (m),      *)
(* velocity (m/s), time (s) and ratio is an integer count of hundredths    *)
(* (25 m is 2500, 1.5 s is 150, the ratio 0.85 is 85), and a comparison    *)
(* between products is made after bringing both sides to the same power    *)
(* of 100, so it is decided exactly.  float('inf') is the value Inf, which *)
(* is larger than every input; the operators that can meet it treat it by  *)
(* cases.  A time-to-collision is kept as the fraction num/den it is       *)
(* computed from (or as infinite) and compared by cross-multiplication.    *)
(***************************************************************************)
EXTENDS Integers, Sequences, FiniteSets, TLC

VARIABLES
    machine,                  \* which class was constructed: "ACCFSM", "LKAACCFSM", "HighwayPilotFSM"
    current_state,            \* BaseFSM.current_state (an Enum member)
    time_in_state,            \* BaseFSM.time_in_state
    transition_history,       \* BaseFSM.transition_history
    last_action,              \* ACCFSM.last_action
    action_hold_time,         \* ACCFSM.action_hold_time
    lane_change_start_time,   \* HighwayPilotFSM.lane_change_start_time
    initial_gap_at_lc_start,  \* HighwayPilotFSM.initial_gap_at_lc_start
    observation,              \* the observation passed to the last call
    action,                   \* the command the last update call returned
    state_at_entry,           \* history: current_state when the last update call began
    elapsed,                  \* history: sum of the dt of all update calls
    lane_change_target,       \* history: the lane the last lane change was started toward
    command_change,           \* history: timing of the changes of the emitted command
    call,                     \* the method called last, other than update, with its arguments
    result                    \* what that call returned or raised

vars == <<machine, current_state, time_in_state, transition_history, last_action,
          action_hold_time, lane_change_start_time, initial_gap_at_lc_start,
          observation, action, state_at_entry, elapsed, lane_change_target,
          command_change, call, result>>

-----------------------------------------------------------------------------
(* Values *)

\* float('inf')
Inf == 99999999

\* Python's None, for initial_gap_at_lc_start, and for a field a class does not have
None == -1

\* the action codes of highway-env
LANE_LEFT == 0
IDLE == 1
LANE_RIGHT == 2
FASTER == 3
SLOWER == 4

\* "no command returned yet"
NoAction == None

Max(a, b) == IF a >= b THEN a ELSE b
Min(a, b) == IF a <= b THEN a ELSE b
Abs(a) == IF a >= 0 THEN a ELSE -a

-----------------------------------------------------------------------------
(* Tactical parameters (ADSConfig.tactical_params), in hundredths *)

\* required parameters: the configuration must give them
target_velocity == 3000
time_headway == 150
emergency_ttc == 200
min_gap == 2500

\* optional parameters, at the defaults of the source
comfortable_distance_ratio == 120
warning_distance_ratio == 85
critical_ttc == 150
min_action_hold == 150
lane_center_tolerance == 30
min_gap_for_lane_change == 4000
safe_gap_front == 2500
safe_gap_rear == 2000
velocity_delta_threshold == -500
abort_if_ttc_during_lc == 300
abort_if_gap_shrinks_by == 1000

\* optional parameter, configured to 0.5 s (its default is 10 s)
min_following_time_before_overtake == 50

-----------------------------------------------------------------------------
(* The state enumerations.  Members of different Enum classes are never    *)
(* equal in Python, whatever their values, so a member is the pair of its  *)
(* class and its value.                                                    *)

Member(enum, value) == [enum |-> enum, value |-> value]

ACCState == {Member("ACCState", v) : v \in {"CRUISING", "FOLLOWING", "EMERGENCY_BRAKE"}}

LKAACCState == {Member("LKAACCState", v) :
                  v \in {"CRUISING", "FOLLOWING", "LANE_KEEPING", "LANE_CORRECTION",
                         "EMERGENCY_BRAKE"}}

HighwayPilotState == {Member("HighwayPilotState", v) :
                        v \in {"CRUISING", "FOLLOWING", "LANE_KEEPING", "LANE_CORRECTION",
                               "EMERGENCY_BRAKE", "EVALUATING_OVERTAKE",
                               "PREPARING_LC_LEFT", "PREPARING_LC_RIGHT",
                               "EXECUTING_LC_LEFT", "EXECUTING_LC_RIGHT",
                               "ABORTING_LANE_CHANGE"}}

ACC(v) == Member("ACCState", v)
LKA(v) == Member("LKAACCState", v)
HP(v) == Member("HighwayPilotState", v)

-----------------------------------------------------------------------------
(* BaseFSM.  A machine is the record m of its fields.                      *)

\* get_current_time that reads the last record only
get_current_time_last_record(m) ==
    LET h == m.transition_history
    IN  IF Len(h) = 0 THEN 0 ELSE h[Len(h)].time_in_previous_state

\* BaseFSM.get_current_time
get_current_time(m) ==
    LET h == m.transition_history
        sum[i \in 0..Len(h)] == IF i = 0 THEN 0 ELSE sum[i - 1] + h[i].time_in_previous_state
    IN  IF Len(h) = 0 THEN 0 ELSE sum[Len(h)]

\* _transition_to that keeps only the newest record
transition_to_forgetful(m, new_state, reason) ==
    IF new_state # m.current_state
    THEN [m EXCEPT
            !.transition_history =
                <<[timestamp |-> get_current_time(m),
                   from_state |-> m.current_state.value,
                   to_state |-> new_state.value,
                   reason |-> reason,
                   time_in_previous_state |-> m.time_in_state]>>,
            !.current_state = new_state,
            !.time_in_state = 0]
    ELSE m

\* _transition_to without the test for the current state
transition_to_unconditional(m, new_state, reason) ==
    [m EXCEPT
        !.transition_history =
            Append(@, [timestamp |-> get_current_time(m),
                       from_state |-> m.current_state.value,
                       to_state |-> new_state.value,
                       reason |-> reason,
                       time_in_previous_state |-> m.time_in_state]),
        !.current_state = new_state,
        !.time_in_state = 0]

\* BaseFSM._transition_to.  The reason string is kept as the text of the call
\* site without the numbers it interpolates.
transition_to(m, new_state, reason) ==
    IF new_state # m.current_state
    THEN [m EXCEPT
            !.transition_history =
                Append(@, [timestamp |-> get_current_time(m),
                           from_state |-> m.current_state.value,
                           to_state |-> new_state.value,
                           reason |-> reason,
                           time_in_previous_state |-> m.time_in_state]),
            !.current_state = new_state,
            !.time_in_state = 0]
    ELSE m

\* the result of BaseFSM._calculate_ttc: infinite, or the fraction num/den seconds
TtcInf == [inf |-> TRUE, num |-> 0, den |-> 1]

\* _calculate_ttc that lets a closing rate of zero through
calculate_ttc_zero_closing(ego_velocity, vehicle) ==
    LET rel_long == vehicle.relative_longitudinal
        rel_velocity == ego_velocity - vehicle.velocity
    IN  IF rel_long <= 0 THEN TtcInf
        ELSE IF rel_velocity < 0 THEN TtcInf
        ELSE [inf |-> FALSE, num |-> rel_long, den |-> rel_velocity]

\* BaseFSM._calculate_ttc
calculate_ttc(ego_velocity, vehicle) ==
    LET rel_long == vehicle.relative_longitudinal
        rel_velocity == ego_velocity - vehicle.velocity
    IN  IF rel_long <= 0 THEN TtcInf
        ELSE IF rel_velocity <= 0 THEN TtcInf
        ELSE [inf |-> FALSE, num |-> rel_long, den |-> rel_velocity]

\* ttc < c and ttc > c, for a ttc of calculate_ttc and c in hundredths of a second
TtcLess(ttc, c) == ~ttc.inf /\ ttc.num * 100 < c * ttc.den
TtcGreater(ttc, c) == ttc.inf \/ ttc.num * 100 > c * ttc.den

\* "leader is None"
NoVehicle == [id |-> "None", lane_index |-> -1, relative_longitudinal |-> 0, velocity |-> 0]

\* _find_leader that returns the last of several nearest vehicles
find_leader_last(obs) ==
    LET vs == obs.vehicles
        candidates == {i \in 1..Len(vs) :
                         /\ vs[i].lane_index = obs.ego.lane_index
                         /\ vs[i].relative_longitudinal > 0}
    IN  IF candidates = {} THEN NoVehicle
        ELSE vs[CHOOSE i \in candidates :
                  \A j \in candidates :
                     \/ vs[i].relative_longitudinal < vs[j].relative_longitudinal
                     \/ (vs[i].relative_longitudinal = vs[j].relative_longitudinal /\ i >= j)]

\* BaseFSM._find_leader: Python's min returns the first of several minimal elements
find_leader(obs) ==
    LET vs == obs.vehicles
        candidates == {i \in 1..Len(vs) :
                         /\ vs[i].lane_index = obs.ego.lane_index
                         /\ vs[i].relative_longitudinal > 0}
    IN  IF candidates = {} THEN NoVehicle
        ELSE vs[CHOOSE i \in candidates :
                  \A j \in candidates :
                     \/ vs[i].relative_longitudinal < vs[j].relative_longitudinal
                     \/ (vs[i].relative_longitudinal = vs[j].relative_longitudinal /\ i <= j)]

\* min and max of a finite set of integers with a default, as min(..., default=...)
SetMin(S, default) == IF S = {} THEN default ELSE CHOOSE x \in S : \A y \in S : x <= y
SetMax(S, default) == IF S = {} THEN default ELSE CHOOSE x \in S : \A y \in S : x >= y

\* BaseFSM._measure_gap_on_lane
measure_gap_on_lane(obs, target_lane) ==
    LET vs == obs.vehicles
        vehicles_on_lane == {i \in 1..Len(vs) : vs[i].lane_index = target_lane}
        front == {vs[i].relative_longitudinal : i \in {j \in vehicles_on_lane : vs[j].relative_longitudinal > 0}}
        rear == {vs[i].relative_longitudinal : i \in {j \in vehicles_on_lane : vs[j].relative_longitudinal < 0}}
        gap_front == SetMin(front, Inf)
        gap_rear == Abs(SetMax(rear, -Inf))
    IN  IF vehicles_on_lane = {} THEN Inf ELSE Min(gap_front, gap_rear)

-----------------------------------------------------------------------------
(* ACCFSM (src/fsm/acc_fsm.py) *)

\* what a handler leaves behind: the machine and the command it returns
Ret(m, a) == [m |-> m, ret |-> a]

\* max(self.min_gap, self.time_headway * ego_velocity), in 1/10000 m
ACC_safe_distance(ego_velocity) == Max(min_gap * 100, time_headway * ego_velocity)

\* Level 1 of the emergency check: distance < min_gap * 0.8 and ttc < critical_ttc
ACC_level1(ego_velocity, leader) ==
    /\ leader.relative_longitudinal * 100 < min_gap * 80
    /\ TtcLess(calculate_ttc(ego_velocity, leader), critical_ttc)

\* Level 2 with the threshold of Level 1 for the time-to-collision
ACC_level2_critical_ttc(ego_velocity, leader) ==
    /\ TtcLess(calculate_ttc(ego_velocity, leader), critical_ttc)
    /\ leader.relative_longitudinal * 100 * 100 < ACC_safe_distance(ego_velocity) * 70

\* Level 2: ttc < emergency_ttc and distance < safe_distance * 0.7
ACC_level2(ego_velocity, leader) ==
    /\ TtcLess(calculate_ttc(ego_velocity, leader), emergency_ttc)
    /\ leader.relative_longitudinal * 100 * 100 < ACC_safe_distance(ego_velocity) * 70

\* Level 3: distance < min_gap and ttc > critical_ttc
ACC_level3(ego_velocity, leader) ==
    /\ leader.relative_longitudinal < min_gap
    /\ TtcGreater(calculate_ttc(ego_velocity, leader), critical_ttc)

\* the emergency check with a Level 3 that brakes like Level 2
ACCFSM_emergency_check_level3_brakes(m, ego_velocity, leader) ==
    IF leader = NoVehicle THEN Ret(m, NoAction)
    ELSE IF \/ ACC_level1(ego_velocity, leader)
            \/ ACC_level2(ego_velocity, leader)
            \/ ACC_level3(ego_velocity, leader)
    THEN Ret([transition_to(m, ACC("EMERGENCY_BRAKE"), "Emergency")
                EXCEPT !.last_action = SLOWER, !.action_hold_time = 0], SLOWER)
    ELSE Ret(m, NoAction)

\* PRIORITY 1 of ACCFSM.update that leaves the action-smoothing memory as it was
ACCFSM_emergency_check_keeps_memory(m, ego_velocity, leader) ==
    IF leader = NoVehicle THEN Ret(m, NoAction)
    ELSE IF ACC_level1(ego_velocity, leader)
    THEN Ret(transition_to(m, ACC("EMERGENCY_BRAKE"), "CRITICAL: distance AND TTC"), SLOWER)
    ELSE IF ACC_level2(ego_velocity, leader)
    THEN Ret(transition_to(m, ACC("EMERGENCY_BRAKE"), "Emergency: TTC, distance"), SLOWER)
    ELSE IF ACC_level3(ego_velocity, leader)
    THEN IF m.current_state \notin {ACC("FOLLOWING"), ACC("EMERGENCY_BRAKE")}
         THEN Ret(transition_to(m, ACC("FOLLOWING"), "Close distance"), NoAction)
         ELSE Ret(m, NoAction)
    ELSE Ret(m, NoAction)

\* ACCFSM.update, PRIORITY 1.  ret = NoAction: update goes on to PRIORITY 2.
ACCFSM_emergency_check(m, ego_velocity, leader) ==
    IF leader = NoVehicle THEN Ret(m, NoAction)
    ELSE IF ACC_level1(ego_velocity, leader)
    THEN Ret([transition_to(m, ACC("EMERGENCY_BRAKE"), "CRITICAL: distance AND TTC")
                EXCEPT !.last_action = SLOWER, !.action_hold_time = 0], SLOWER)
    ELSE IF ACC_level2(ego_velocity, leader)
    THEN Ret([transition_to(m, ACC("EMERGENCY_BRAKE"), "Emergency: TTC, distance")
                EXCEPT !.last_action = SLOWER, !.action_hold_time = 0], SLOWER)
    ELSE IF ACC_level3(ego_velocity, leader)
    THEN IF m.current_state \notin {ACC("FOLLOWING"), ACC("EMERGENCY_BRAKE")}
         THEN Ret(transition_to(m, ACC("FOLLOWING"), "Close distance"), NoAction)
         ELSE Ret(m, NoAction)
    ELSE Ret(m, NoAction)

\* cruise control whose dead zone is 1 m/s wide on either side of the target
ACC_cruise_control_wide_dead_zone(ego_velocity) ==
    LET velocity_error == target_velocity - ego_velocity
    IN  IF velocity_error > 100 THEN FASTER
        ELSE IF velocity_error < -100 THEN SLOWER
        ELSE IDLE

\* the cruise control of ACCFSM._handle_cruising_state (lines 135-148)
ACC_cruise_control(ego_velocity) ==
    LET velocity_error == target_velocity - ego_velocity
    IN  IF velocity_error > 100 THEN FASTER
        ELSE IF velocity_error < -100 THEN SLOWER
        ELSE IF Abs(velocity_error) > 50
             THEN (IF velocity_error > 0 THEN FASTER ELSE SLOWER)
        ELSE IDLE

\* _handle_cruising_state that compares the distance with the whole safe distance
ACCFSM_handle_cruising_state_no_ratio(m, obs, ego_velocity, leader) ==
    IF /\ leader # NoVehicle
       /\ leader.relative_longitudinal * 100 * 100 < ACC_safe_distance(ego_velocity) * 100
    THEN Ret(transition_to(m, ACC("FOLLOWING"), "Leader detected < safe distance"), SLOWER)
    ELSE Ret(m, ACC_cruise_control(ego_velocity))

\* ACCFSM._handle_cruising_state
ACCFSM_handle_cruising_state(m, obs, ego_velocity, leader) ==
    IF /\ leader # NoVehicle
       /\ leader.relative_longitudinal * 100 * 100
            < ACC_safe_distance(ego_velocity) * warning_distance_ratio
    THEN Ret(transition_to(m, ACC("FOLLOWING"), "Leader detected < safe distance"), SLOWER)
    ELSE Ret(m, ACC_cruise_control(ego_velocity))

\* the five zones of ACCFSM._handle_following_state (lines 174-218); d and sd in 1/10000 m
ACC_following_zones(d, sd, velocity_diff) ==
    IF d * 100 < sd * 70 THEN SLOWER
    ELSE IF d * 100 < sd * 90
         THEN (IF velocity_diff > 200 THEN SLOWER ELSE IDLE)
    ELSE IF d * 100 < sd * comfortable_distance_ratio
         THEN (IF Abs(velocity_diff) < 50 THEN IDLE
               ELSE IF velocity_diff > 150 THEN SLOWER
               ELSE IF velocity_diff > 50 THEN SLOWER
               ELSE IF velocity_diff < -150 THEN FASTER
               ELSE FASTER)
    ELSE IF d * 100 < sd * 150
         THEN (IF velocity_diff < -100 THEN FASTER ELSE IDLE)
    ELSE (IF velocity_diff < -150 THEN FASTER ELSE IDLE)

\* _handle_following_state that gives up following beyond 0.8 times the safe
\* distance, below the distance at which CRUISING takes it up
ACCFSM_handle_following_state_early_exit(m, obs, ego_velocity, leader) ==
    IF leader = NoVehicle
    THEN Ret(transition_to(m, ACC("CRUISING"), "Leader no longer detected"), FASTER)
    ELSE LET d == leader.relative_longitudinal * 100
             sd == ACC_safe_distance(ego_velocity)
             velocity_diff == ego_velocity - leader.velocity
         IN  IF d * 100 > sd * 80
             THEN Ret(transition_to(m, ACC("CRUISING"), "Safe distance exceeded"), FASTER)
             ELSE Ret(m, ACC_following_zones(d, sd, velocity_diff))

\* ACCFSM._handle_following_state
ACCFSM_handle_following_state(m, obs, ego_velocity, leader) ==
    IF leader = NoVehicle
    THEN Ret(transition_to(m, ACC("CRUISING"), "Leader no longer detected"), FASTER)
    ELSE LET d == leader.relative_longitudinal * 100
             sd == ACC_safe_distance(ego_velocity)
             velocity_diff == ego_velocity - leader.velocity
         IN  IF d * 100 > sd * 150
             THEN Ret(transition_to(m, ACC("CRUISING"), "Safe distance exceeded"), FASTER)
             ELSE Ret(m, ACC_following_zones(d, sd, velocity_diff))

\* _handle_emergency_brake_state without the transition of its Level 4
ACCFSM_handle_emergency_brake_state_no_level4(m, obs, ego_velocity, leader) ==
    IF leader = NoVehicle
    THEN Ret(transition_to(m, ACC("CRUISING"), "Emergency resolved - leader gone"), FASTER)
    ELSE LET ttc == calculate_ttc(ego_velocity, leader)
             distance == leader.relative_longitudinal
             sd == ACC_safe_distance(ego_velocity)
             velocity_diff == ego_velocity - leader.velocity
         IN  IF /\ distance * 100 > min_gap * 120
                /\ (ttc.inf \/ ttc.num * 100 * 100 > critical_ttc * 150 * ttc.den)
             THEN Ret(transition_to(m, ACC("FOLLOWING"), "Emergency resolved"), IDLE)
             ELSE IF TtcGreater(ttc, emergency_ttc)
             THEN Ret(transition_to(m, ACC("FOLLOWING"), "TTC improved, switching to FOLLOWING"),
                      IF distance * 100 * 100 < sd * 80 THEN SLOWER ELSE IDLE)
             ELSE IF ego_velocity < 1500 /\ distance * 100 > min_gap * 90
             THEN Ret(m, IF velocity_diff > 100 THEN SLOWER ELSE IDLE)
             ELSE Ret(m, SLOWER)

\* ACCFSM._handle_emergency_brake_state
ACCFSM_handle_emergency_brake_state(m, obs, ego_velocity, leader) ==
    IF leader = NoVehicle
    THEN Ret(transition_to(m, ACC("CRUISING"), "Emergency resolved - leader gone"), FASTER)
    ELSE LET ttc == calculate_ttc(ego_velocity, leader)
             distance == leader.relative_longitudinal
             sd == ACC_safe_distance(ego_velocity)
             velocity_diff == ego_velocity - leader.velocity
         IN  IF /\ distance * 100 > min_gap * 120
                \* ttc > critical_ttc * 1.5
                /\ (ttc.inf \/ ttc.num * 100 * 100 > critical_ttc * 150 * ttc.den)
             THEN Ret(transition_to(m, ACC("FOLLOWING"), "Emergency resolved"), IDLE)
             ELSE IF TtcGreater(ttc, emergency_ttc)
             THEN Ret(transition_to(m, ACC("FOLLOWING"), "TTC improved, switching to FOLLOWING"),
                      IF distance * 100 * 100 < sd * 80 THEN SLOWER ELSE IDLE)
             ELSE IF ego_velocity < 1500
             THEN IF distance * 100 > min_gap * 90
                  THEN Ret(m, IF velocity_diff > 100 THEN SLOWER ELSE IDLE)
                  ELSE Ret(m, SLOWER)
             ELSE IF TtcGreater(ttc, critical_ttc)
             THEN IF distance * 100 > min_gap * 85
                  THEN Ret(transition_to(m, ACC("FOLLOWING"), "Situation improving"), SLOWER)
                  ELSE Ret(m, SLOWER)
             ELSE Ret(m, SLOWER)

\* ACCFSM.update, PRIORITY 2: the dispatch on the current state
ACCFSM_dispatch(m, obs, ego_velocity, leader) ==
    IF m.current_state = ACC("CRUISING")
    THEN ACCFSM_handle_cruising_state(m, obs, ego_velocity, leader)
    ELSE IF m.current_state = ACC("FOLLOWING")
    THEN ACCFSM_handle_following_state(m, obs, ego_velocity, leader)
    ELSE IF m.current_state = ACC("EMERGENCY_BRAKE")
    THEN ACCFSM_handle_emergency_brake_state(m, obs, ego_velocity, leader)
    ELSE Ret(m, IDLE)

\* action smoothing that never holds a command
ACCFSM_action_smoothing_no_hold(m, a) ==
    Ret([m EXCEPT !.action_hold_time = IF a # m.last_action THEN 0 ELSE @,
                  !.last_action = a], a)

\* action smoothing that still holds a command held for exactly min_action_hold
ACCFSM_action_smoothing_hold_inclusive(m, a) ==
    IF a # m.last_action /\ m.action_hold_time <= min_action_hold
    THEN Ret(m, m.last_action)
    ELSE Ret([m EXCEPT !.action_hold_time = IF a # m.last_action THEN 0 ELSE @,
                       !.last_action = a], a)

\* ACCFSM.update, the action smoothing (lines 111-119)
ACCFSM_action_smoothing(m, a) ==
    IF a # m.last_action /\ m.action_hold_time < min_action_hold
    THEN Ret(m, m.last_action)
    ELSE Ret([m EXCEPT !.action_hold_time = IF a # m.last_action THEN 0 ELSE @,
                       !.last_action = a], a)

\* ACCFSM.update
ACCFSM_update(m0, obs, dt) ==
    LET m == [m0 EXCEPT !.time_in_state = @ + dt, !.action_hold_time = @ + dt]
        ego_velocity == obs.ego.velocity
        leader == find_leader(obs)
        p1 == ACCFSM_emergency_check(m, ego_velocity, leader)
        p2 == ACCFSM_dispatch(p1.m, obs, ego_velocity, leader)
    IN  IF p1.ret # NoAction THEN p1 ELSE ACCFSM_action_smoothing(p2.m, p2.ret)

-----------------------------------------------------------------------------
(* LKAACCFSM (src/fsm/lka_acc_fsm.py) *)

\* LKAACCFSM._get_lane_offset: position[1] - lane_index * 4.0
get_lane_offset(obs) == obs.ego.position[2] - obs.ego.lane_index * 400

\* the speed control of LKAACCFSM._handle_cruising_state (lines 107-112)
LKA_speed_control(ego_velocity) ==
    IF ego_velocity < target_velocity - 50 THEN FASTER
    ELSE IF ego_velocity > target_velocity + 50 THEN SLOWER
    ELSE IDLE

\* LKAACCFSM._handle_cruising_state; safe_distance = time_headway * ego_velocity
LKAACCFSM_handle_cruising_state(m, obs, ego_velocity, leader) ==
    IF /\ leader # NoVehicle
       /\ leader.relative_longitudinal * 100 < time_headway * ego_velocity
    THEN Ret(transition_to(m, LKA("FOLLOWING"), "Leader at"), SLOWER)
    ELSE Ret(m, LKA_speed_control(ego_velocity))

\* LKAACCFSM._handle_following_state
LKAACCFSM_handle_following_state(m, obs, ego_velocity, leader) ==
    IF leader = NoVehicle
    THEN Ret(transition_to(m, LKA("CRUISING"), "Leader disappeared"), FASTER)
    ELSE LET d == leader.relative_longitudinal * 100
             sd == time_headway * ego_velocity
             velocity_diff == ego_velocity - leader.velocity
         IN  IF d * 100 > sd * 120 THEN Ret(m, FASTER)
             ELSE IF d * 100 < sd * 80 THEN Ret(m, SLOWER)
             ELSE IF velocity_diff > 100 THEN Ret(m, SLOWER)
             ELSE IF velocity_diff < -100 THEN Ret(m, FASTER)
             ELSE Ret(m, IDLE)

\* _handle_lane_correction_state that steers back with lateral commands
LKAACCFSM_handle_lane_correction_state_steering(m, obs, ego_velocity, leader, lane_offset) ==
    IF Abs(lane_offset) * 100 < lane_center_tolerance * 50
    THEN IF leader # NoVehicle
         THEN Ret(transition_to(m, LKA("FOLLOWING"), "Lane correction complete, leader present"),
                  IDLE)
         ELSE Ret(transition_to(m, LKA("CRUISING"), "Lane correction complete"), IDLE)
    ELSE IF lane_offset > 0 THEN Ret(m, LANE_LEFT)
    ELSE Ret(m, LANE_RIGHT)

\* _handle_lane_correction_state that is done once the offset is under the tolerance
LKAACCFSM_handle_lane_correction_state_full_tolerance(m, obs, ego_velocity, leader, lane_offset) ==
    IF Abs(lane_offset) < lane_center_tolerance
    THEN IF leader # NoVehicle
         THEN Ret(transition_to(m, LKA("FOLLOWING"), "Lane correction complete, leader present"),
                  IDLE)
         ELSE Ret(transition_to(m, LKA("CRUISING"), "Lane correction complete"), IDLE)
    ELSE IF ego_velocity * 100 > target_velocity * 90 THEN Ret(m, SLOWER)
    ELSE Ret(m, IDLE)

\* LKAACCFSM._handle_lane_correction_state
LKAACCFSM_handle_lane_correction_state(m, obs, ego_velocity, leader, lane_offset) ==
    IF Abs(lane_offset) * 100 < lane_center_tolerance * 50
    THEN IF leader # NoVehicle
         THEN Ret(transition_to(m, LKA("FOLLOWING"), "Lane correction complete, leader present"),
                  IDLE)
         ELSE Ret(transition_to(m, LKA("CRUISING"), "Lane correction complete"), IDLE)
    ELSE IF ego_velocity * 100 > target_velocity * 90 THEN Ret(m, SLOWER)
    ELSE Ret(m, IDLE)

\* LKAACCFSM._handle_emergency_brake_state
LKAACCFSM_handle_emergency_brake_state(m, obs, ego_velocity, leader) ==
    IF leader = NoVehicle
    THEN Ret(transition_to(m, LKA("CRUISING"), "Emergency resolved - leader gone"), IDLE)
    ELSE LET ttc == calculate_ttc(ego_velocity, leader)
             distance == leader.relative_longitudinal
             sd == time_headway * ego_velocity
         IN  IF \* ttc > emergency_ttc * 1.5 and distance > safe_distance * 0.7
                /\ (ttc.inf \/ ttc.num * 100 * 100 > emergency_ttc * 150 * ttc.den)
                /\ distance * 100 * 100 > sd * 70
             THEN Ret(transition_to(m, LKA("FOLLOWING"), "Emergency resolved"), IDLE)
             ELSE IF ego_velocity < 2000 THEN Ret(m, IDLE)
             ELSE Ret(m, SLOWER)

\* the emergency check of LKAACCFSM with the two levels of ACCFSM
LKA_emergency_two_levels(ego_velocity, leader) ==
    /\ leader # NoVehicle
    /\ ACC_level1(ego_velocity, leader) \/ ACC_level2(ego_velocity, leader)

\* LKAACCFSM.update, PRIORITY 1: "ttc < self.emergency_ttc" for the leader
LKA_emergency(ego_velocity, leader) ==
    /\ leader # NoVehicle
    /\ TtcLess(calculate_ttc(ego_velocity, leader), emergency_ttc)

\* lane position check with half the tolerance
LKAACCFSM_lane_position_check_half_tolerance(m, lane_offset) ==
    IF 2 * Abs(lane_offset) > lane_center_tolerance
    THEN IF m.current_state # LKA("LANE_CORRECTION")
         THEN transition_to(m, LKA("LANE_CORRECTION"), "Lane offset")
         ELSE m
    ELSE m

\* lane position check that answers every offset from the centre
LKAACCFSM_lane_position_check_any_offset(m, lane_offset) ==
    IF Abs(lane_offset) > 0
    THEN IF m.current_state # LKA("LANE_CORRECTION")
         THEN transition_to(m, LKA("LANE_CORRECTION"), "Lane offset")
         ELSE m
    ELSE m

\* lane position check that leaves an emergency braking alone
LKAACCFSM_lane_position_check_not_braking(m, lane_offset) ==
    IF Abs(lane_offset) > lane_center_tolerance
    THEN IF m.current_state \notin {LKA("LANE_CORRECTION"), LKA("EMERGENCY_BRAKE")}
         THEN transition_to(m, LKA("LANE_CORRECTION"), "Lane offset")
         ELSE m
    ELSE m

\* LKAACCFSM.update, PRIORITY 2: the lane position check (lines 68-74)
LKAACCFSM_lane_position_check(m, lane_offset) ==
    IF Abs(lane_offset) > lane_center_tolerance
    THEN IF m.current_state # LKA("LANE_CORRECTION")
         THEN transition_to(m, LKA("LANE_CORRECTION"), "Lane offset")
         ELSE m
    ELSE m

\* LKAACCFSM.update, PRIORITY 3: the dispatch on the current state
LKAACCFSM_dispatch(m, obs, ego_velocity, leader, lane_offset) ==
    IF m.current_state = LKA("CRUISING")
    THEN LKAACCFSM_handle_cruising_state(m, obs, ego_velocity, leader)
    ELSE IF m.current_state = LKA("FOLLOWING")
    THEN LKAACCFSM_handle_following_state(m, obs, ego_velocity, leader)
    ELSE IF m.current_state = LKA("LANE_CORRECTION")
    THEN LKAACCFSM_handle_lane_correction_state(m, obs, ego_velocity, leader, lane_offset)
    ELSE IF m.current_state = LKA("EMERGENCY_BRAKE")
    THEN LKAACCFSM_handle_emergency_brake_state(m, obs, ego_velocity, leader)
    ELSE Ret(m, IDLE)

\* LKAACCFSM.update
LKAACCFSM_update(m0, obs, dt) ==
    LET m == [m0 EXCEPT !.time_in_state = @ + dt]
        ego_velocity == obs.ego.velocity
        leader == find_leader(obs)
        lane_offset == get_lane_offset(obs)
    IN  IF LKA_emergency(ego_velocity, leader)
        THEN Ret(transition_to(m, LKA("EMERGENCY_BRAKE"), "TTC < emergency_ttc"), SLOWER)
        ELSE LKAACCFSM_dispatch(LKAACCFSM_lane_position_check(m, lane_offset),
                                obs, ego_velocity, leader, lane_offset)

-----------------------------------------------------------------------------
(* HighwayPilotFSM (src/fsm/highway_pilot_fsm.py), a subclass of LKAACCFSM *)

\* HighwayPilotFSM.update, PRIORITY 1: "ttc < self.emergency_ttc" for the leader
HP_emergency(ego_velocity, leader) ==
    /\ leader # NoVehicle
    /\ TtcLess(calculate_ttc(ego_velocity, leader), emergency_ttc)

\* HighwayPilotFSM._is_in_lane_change_state
is_in_lane_change_state(m) ==
    m.current_state \in {HP("EXECUTING_LC_LEFT"), HP("EXECUTING_LC_RIGHT")}

\* "initial - current > abort_if_gap_shrinks_by" in float arithmetic:
\* inf - inf is nan, and nan > x is False
HP_gap_reduction_exceeds(initial, current) ==
    IF initial = Inf THEN current # Inf
    ELSE IF current = Inf THEN FALSE
    ELSE initial - current > abort_if_gap_shrinks_by

\* _check_lane_change_abort_conditions without the check of the TTC
check_lane_change_abort_conditions_gap_only(m, obs, ego_velocity, leader) ==
    IF m.initial_gap_at_lc_start # None
    THEN IF m.current_state \notin {HP("EXECUTING_LC_LEFT"), HP("EXECUTING_LC_RIGHT")}
         THEN <<FALSE, "">>
         ELSE LET ego_lane == obs.ego.lane_index
                  target_lane == IF m.current_state = HP("EXECUTING_LC_LEFT")
                                 THEN ego_lane - 1 ELSE ego_lane + 1
                  current_gap == measure_gap_on_lane(obs, target_lane)
              IN  IF HP_gap_reduction_exceeds(m.initial_gap_at_lc_start, current_gap)
                  THEN <<TRUE, "Abort: Gap shrunk">>
                  ELSE <<FALSE, "">>
    ELSE <<FALSE, "">>

\* HighwayPilotFSM._check_lane_change_abort_conditions: (should_abort, reason)
check_lane_change_abort_conditions(m, obs, ego_velocity, leader) ==
    IF /\ leader # NoVehicle
       /\ TtcLess(calculate_ttc(ego_velocity, leader), abort_if_ttc_during_lc)
    THEN <<TRUE, "Abort: TTC during lane change">>
    ELSE IF m.initial_gap_at_lc_start # None
    THEN IF m.current_state \notin {HP("EXECUTING_LC_LEFT"), HP("EXECUTING_LC_RIGHT")}
         THEN <<FALSE, "">>
         ELSE LET ego_lane == obs.ego.lane_index
                  target_lane == IF m.current_state = HP("EXECUTING_LC_LEFT")
                                 THEN ego_lane - 1 ELSE ego_lane + 1
                  current_gap == measure_gap_on_lane(obs, target_lane)
              IN  IF HP_gap_reduction_exceeds(m.initial_gap_at_lc_start, current_gap)
                  THEN <<TRUE, "Abort: Gap shrunk">>
                  ELSE <<FALSE, "">>
    ELSE <<FALSE, "">>

\* HighwayPilotFSM._handle_cruising_state_hp
HighwayPilotFSM_handle_cruising_state_hp(m, obs, ego_velocity, leader) ==
    IF /\ leader # NoVehicle
       /\ leader.relative_longitudinal * 100 < time_headway * ego_velocity
    THEN Ret(transition_to(m, HP("FOLLOWING"), "Leader detected at"), SLOWER)
    ELSE Ret(m, LKA_speed_control(ego_velocity))

\* the overtake condition of _handle_following_state_hp (lines 197-199)
HP_should_evaluate_overtake(m, ego_velocity, leader) ==
    /\ m.time_in_state > min_following_time_before_overtake
    /\ ego_velocity - leader.velocity < velocity_delta_threshold
    /\ leader.relative_longitudinal * 100 > min_gap * 80

\* HighwayPilotFSM._handle_following_state_hp
HighwayPilotFSM_handle_following_state_hp(m, obs, ego_velocity, leader) ==
    IF leader = NoVehicle
    THEN Ret(transition_to(m, HP("CRUISING"), "Leader disappeared"), FASTER)
    ELSE LET d == leader.relative_longitudinal * 100
             sd == time_headway * ego_velocity
             velocity_diff == ego_velocity - leader.velocity
         IN  IF HP_should_evaluate_overtake(m, ego_velocity, leader)
             THEN Ret(transition_to(m, HP("EVALUATING_OVERTAKE"), "Leader slower"), IDLE)
             ELSE IF d * 100 > sd * 110 THEN Ret(m, FASTER)
             ELSE IF d * 100 < sd * 90 THEN Ret(m, SLOWER)
             ELSE IF velocity_diff > 100 THEN Ret(m, SLOWER)
             ELSE IF velocity_diff < -100 THEN Ret(m, FASTER)
             ELSE Ret(m, IDLE)

\* _handle_evaluating_overtake_state that checks the right lane first
HighwayPilotFSM_handle_evaluating_overtake_state_right_first(m, obs, ego_velocity, leader, ego_lane) ==
    IF leader = NoVehicle
    THEN Ret(transition_to(m, HP("CRUISING"), "Leader disappeared during evaluation"), FASTER)
    ELSE IF ego_lane < 3 /\ measure_gap_on_lane(obs, ego_lane + 1) > min_gap_for_lane_change
    THEN Ret(transition_to(m, HP("PREPARING_LC_RIGHT"), "Right lane clear"), IDLE)
    ELSE IF ego_lane > 0 /\ measure_gap_on_lane(obs, ego_lane - 1) > min_gap_for_lane_change
    THEN Ret(transition_to(m, HP("PREPARING_LC_LEFT"), "Left lane clear"), IDLE)
    ELSE Ret(transition_to(m, HP("FOLLOWING"), "No safe gap for overtaking"), SLOWER)

\* HighwayPilotFSM._handle_evaluating_overtake_state
HighwayPilotFSM_handle_evaluating_overtake_state(m, obs, ego_velocity, leader, ego_lane) ==
    IF leader = NoVehicle
    THEN Ret(transition_to(m, HP("CRUISING"), "Leader disappeared during evaluation"), FASTER)
    ELSE IF ego_lane > 0 /\ measure_gap_on_lane(obs, ego_lane - 1) > min_gap_for_lane_change
    THEN Ret(transition_to(m, HP("PREPARING_LC_LEFT"), "Left lane clear"), IDLE)
    ELSE IF ego_lane < 3 /\ measure_gap_on_lane(obs, ego_lane + 1) > min_gap_for_lane_change
    THEN Ret(transition_to(m, HP("PREPARING_LC_RIGHT"), "Right lane clear"), IDLE)
    ELSE Ret(transition_to(m, HP("FOLLOWING"), "No safe gap for overtaking"), SLOWER)

\* _handle_preparing_lane_change_left with the gap compared to safe_gap_rear
HighwayPilotFSM_handle_preparing_lane_change_left_rear(m, obs, ego_velocity, ego_lane) ==
    LET left_gap == measure_gap_on_lane(obs, ego_lane - 1)
    IN  IF left_gap < safe_gap_rear
        THEN Ret(transition_to(m, HP("FOLLOWING"), "Left gap closed"), SLOWER)
        ELSE Ret(transition_to([m EXCEPT !.lane_change_start_time = get_current_time(m),
                                         !.initial_gap_at_lc_start = left_gap],
                               HP("EXECUTING_LC_LEFT"), "Executing left lane change"),
                 LANE_LEFT)

\* HighwayPilotFSM._handle_preparing_lane_change_left
HighwayPilotFSM_handle_preparing_lane_change_left(m, obs, ego_velocity, ego_lane) ==
    LET left_gap == measure_gap_on_lane(obs, ego_lane - 1)
    IN  IF left_gap < safe_gap_front
        THEN Ret(transition_to(m, HP("FOLLOWING"), "Left gap closed"), SLOWER)
        ELSE Ret(transition_to([m EXCEPT !.lane_change_start_time = get_current_time(m),
                                         !.initial_gap_at_lc_start = left_gap],
                               HP("EXECUTING_LC_LEFT"), "Executing left lane change"),
                 LANE_LEFT)

\* HighwayPilotFSM._handle_preparing_lane_change_right
HighwayPilotFSM_handle_preparing_lane_change_right(m, obs, ego_velocity, ego_lane) ==
    LET right_gap == measure_gap_on_lane(obs, ego_lane + 1)
    IN  IF right_gap < safe_gap_front
        THEN Ret(transition_to(m, HP("FOLLOWING"), "Right gap closed"), SLOWER)
        ELSE Ret(transition_to([m EXCEPT !.lane_change_start_time = get_current_time(m),
                                         !.initial_gap_at_lc_start = right_gap],
                               HP("EXECUTING_LC_RIGHT"), "Executing right lane change"),
                 LANE_RIGHT)

\* _handle_executing_lane_change_left that completes at 0.5 s already
HighwayPilotFSM_handle_executing_lane_change_left_at(m, obs, ego_lane) ==
    IF m.time_in_state >= 50
    THEN Ret(transition_to(m, HP("CRUISING"), "Lane change left completed"), FASTER)
    ELSE Ret(m, IDLE)

\* _handle_executing_lane_change_left that repeats the lateral command while the
\* lane change lasts
HighwayPilotFSM_handle_executing_lane_change_left_repeat(m, obs, ego_lane) ==
    IF m.time_in_state > 50
    THEN Ret(transition_to(m, HP("CRUISING"), "Lane change left completed"), FASTER)
    ELSE Ret(m, LANE_LEFT)

\* HighwayPilotFSM._handle_executing_lane_change_left
HighwayPilotFSM_handle_executing_lane_change_left(m, obs, ego_lane) ==
    IF m.time_in_state > 50
    THEN Ret(transition_to(m, HP("CRUISING"), "Lane change left completed"), FASTER)
    ELSE Ret(m, IDLE)

\* HighwayPilotFSM._handle_executing_lane_change_right
HighwayPilotFSM_handle_executing_lane_change_right(m, obs, ego_lane) ==
    IF m.time_in_state > 50
    THEN Ret(transition_to(m, HP("CRUISING"), "Lane change right completed"), FASTER)
    ELSE Ret(m, IDLE)

\* _handle_aborting_lane_change that ends the manoeuvre at 1.0 s already
HighwayPilotFSM_handle_aborting_lane_change_at(m, obs, ego_velocity, leader) ==
    IF m.time_in_state >= 100
    THEN Ret(transition_to(m, HP("FOLLOWING"), "Lane change aborted, resuming following"), IDLE)
    ELSE Ret(m, SLOWER)

\* HighwayPilotFSM._handle_aborting_lane_change
HighwayPilotFSM_handle_aborting_lane_change(m, obs, ego_velocity, leader) ==
    IF m.time_in_state > 100
    THEN Ret(transition_to(m, HP("FOLLOWING"), "Lane change aborted, resuming following"), IDLE)
    ELSE Ret(m, SLOWER)

\* HighwayPilotFSM.update, PRIORITY 3: the dispatch on the current state.  The two
\* super() calls run the handlers of LKAACCFSM, which name LKAACCState members.
HighwayPilotFSM_dispatch(m, obs, ego_velocity, leader, ego_lane) ==
    IF m.current_state = HP("CRUISING")
    THEN HighwayPilotFSM_handle_cruising_state_hp(m, obs, ego_velocity, leader)
    ELSE IF m.current_state = HP("FOLLOWING")
    THEN HighwayPilotFSM_handle_following_state_hp(m, obs, ego_velocity, leader)
    ELSE IF m.current_state = HP("EVALUATING_OVERTAKE")
    THEN HighwayPilotFSM_handle_evaluating_overtake_state(m, obs, ego_velocity, leader, ego_lane)
    ELSE IF m.current_state = HP("PREPARING_LC_LEFT")
    THEN HighwayPilotFSM_handle_preparing_lane_change_left(m, obs, ego_velocity, ego_lane)
    ELSE IF m.current_state = HP("PREPARING_LC_RIGHT")
    THEN HighwayPilotFSM_handle_preparing_lane_change_right(m, obs, ego_velocity, ego_lane)
    ELSE IF m.current_state = HP("EXECUTING_LC_LEFT")
    THEN HighwayPilotFSM_handle_executing_lane_change_left(m, obs, ego_lane)
    ELSE IF m.current_state = HP("EXECUTING_LC_RIGHT")
    THEN HighwayPilotFSM_handle_executing_lane_change_right(m, obs, ego_lane)
    ELSE IF m.current_state = HP("ABORTING_LANE_CHANGE")
    THEN HighwayPilotFSM_handle_aborting_lane_change(m, obs, ego_velocity, leader)
    ELSE IF m.current_state = HP("LANE_CORRECTION")
    THEN LKAACCFSM_handle_lane_correction_state(m, obs, ego_velocity, leader,
                                                get_lane_offset(obs))
    ELSE IF m.current_state = HP("EMERGENCY_BRAKE")
    THEN LKAACCFSM_handle_emergency_brake_state(m, obs, ego_velocity, leader)
    ELSE Ret(m, IDLE)

\* HighwayPilotFSM.update with the abort check before the emergency check
HighwayPilotFSM_update_abort_first(m0, obs, dt) ==
    LET m == [m0 EXCEPT !.time_in_state = @ + dt]
        ego_velocity == obs.ego.velocity
        ego_lane == obs.ego.lane_index
        leader == find_leader(obs)
        abort == check_lane_change_abort_conditions(m, obs, ego_velocity, leader)
    IN  IF is_in_lane_change_state(m) /\ abort[1]
        THEN Ret(transition_to(m, HP("ABORTING_LANE_CHANGE"), abort[2]), SLOWER)
        ELSE IF HP_emergency(ego_velocity, leader)
        THEN Ret(transition_to(m, HP("EMERGENCY_BRAKE"), "Emergency: TTC"), SLOWER)
        ELSE HighwayPilotFSM_dispatch(m, obs, ego_velocity, leader, ego_lane)

\* HighwayPilotFSM.update (the logging of lines 77-106 changes no state)
HighwayPilotFSM_update(m0, obs, dt) ==
    LET m == [m0 EXCEPT !.time_in_state = @ + dt]
        ego_velocity == obs.ego.velocity
        ego_lane == obs.ego.lane_index
        leader == find_leader(obs)
        abort == check_lane_change_abort_conditions(m, obs, ego_velocity, leader)
    IN  IF HP_emergency(ego_velocity, leader)
        THEN Ret(transition_to(m, HP("EMERGENCY_BRAKE"), "Emergency: TTC"), SLOWER)
        ELSE IF is_in_lane_change_state(m) /\ abort[1]
        THEN Ret(transition_to(m, HP("ABORTING_LANE_CHANGE"), abort[2]), SLOWER)
        ELSE HighwayPilotFSM_dispatch(m, obs, ego_velocity, leader, ego_lane)

-----------------------------------------------------------------------------
(* Observations: what the caller passes to update *)

Vehicle(id, lane_index, relative_longitudinal, velocity) ==
    [id |-> id, lane_index |-> lane_index,
     relative_longitudinal |-> relative_longitudinal, velocity |-> velocity]

Observation(velocity, lane_index, y, vehicles) ==
    [ego |-> [position |-> <<0, y>>, velocity |-> velocity, lane_index |-> lane_index],
     vehicles |-> vehicles]

\* before the first update call
NoObservation == Observation(0, 0, 0, <<>>)

\* the dt of the update calls: half a second, and the default of ACCFSM.update
DtValues == {50, 100}

\* for ACCFSM also a dt that reaches min_action_hold in one call
ACCDtValues == DtValues \cup {150}

\* a vehicle behind the ego in its lane and a nearer one in the next lane:
\* neither is a leader
Bystanders(lane) == <<Vehicle("vehicle_1", lane, -1000, 2500),
                      Vehicle("vehicle_2", lane + 1, 500, 2500)>>

\* <<ego velocity, leader offset, leader velocity>> of the longitudinal situations
LeaderSituations ==
    {<<3000, 4000, 2000>>, <<3000, 3800, 2000>>, <<2500, 1500, 500>>,
     <<3000, 3000, 1000>>, <<3000, 2200, 3000>>, <<3000, 7000, 3000>>,
     <<3000, 4500, 3000>>, <<3000, 4500, 3200>>, <<3000, 6000, 3200>>,
     <<3000, 3500, 2900>>, <<1000, 2000, 0>>, <<1600, 1800, 600>>,
     <<3000, 3800, 1000>>, <<3000, 4000, 0>>, <<1600, 2200, 400>>,
     <<3000, 3000, 1300>>}

\* ego velocities of the observations without a leader
FreeVelocities == {1000, 2500, 2930, 3000, 3200}

\* the observations given to ACCFSM: the ego in the centre of lane 1
ACCObservations ==
    {Observation(s[1], 1, 400, Bystanders(1) \o <<Vehicle("vehicle_3", 1, s[2], s[3])>>) :
        s \in LeaderSituations}
    \cup {Observation(v, 1, 400, Bystanders(1)) : v \in FreeVelocities}

\* the lateral positions given to LKAACCFSM in lane 1, whose centre is at 4 m:
\* offsets 0, 0.1, 0.2 (between half the tolerance and the tolerance), 0.5, -0.5
LateralPositions == {400, 410, 420, 450, 350}

\* the longitudinal situations given to LKAACCFSM
LKALeaderSituations ==
    {<<3000, 4000, 2000>>, <<2500, 1500, 500>>, <<3000, 7000, 3000>>,
     <<3000, 4500, 3200>>, <<1000, 2000, 0>>, <<3000, 5000, 1000>>,
     <<3000, 3800, 1000>>}

LKAFreeVelocities == {2500, 3000, 3200}

LKAObservations ==
    {Observation(s[1], 1, y, Bystanders(1) \o <<Vehicle("vehicle_3", 1, s[2], s[3])>>) :
        s \in LKALeaderSituations, y \in LateralPositions}
    \cup {Observation(v, 1, y, Bystanders(1)) : v \in LKAFreeVelocities, y \in LateralPositions}

\* the longitudinal situations given to HighwayPilotFSM; <<v>> is an ego velocity
\* without a leader
HPLeaderSituations ==
    {<<3000>>, <<2500, 1500, 500>>, <<3000, 2500, 2000>>,
     <<3000, 4000, 2000>>, <<2000, 2500, 3000>>}

\* the vehicles beside and behind the ego: <<lane relative to the ego's, offset>>
NeighbourSituations ==
    {<<>>, << <<-1, -4500>> >>, << <<-1, 3000>> >>, << <<-1, -2000>> >>,
     << <<0, -3000>> >>,
     << <<-1, 2000>>, <<1, 4500>> >>, << <<-1, 2000>>, <<1, -3000>> >>,
     << <<-1, -2000>>, <<1, 2000>> >>}

\* the situations given with the ego in an outermost lane (0 or 3)
EdgeLeaderSituations == {<<3000>>, <<3000, 4000, 2000>>, <<2000, 2500, 3000>>}
EdgeNeighbourSituations(lane) ==
    IF lane = 0 THEN {<<>>, << <<0, -3000>> >>} ELSE {<<>>, << <<-1, 2000>> >>}

Neighbours(lane, n) ==
    [i \in 1..Len(n) |-> Vehicle("vehicle_1", lane + n[i][1], n[i][2], 2500)]

HPObservation(s, lane, n) ==
    Observation(s[1], lane, lane * 400,
                Neighbours(lane, n)
                  \o (IF Len(s) = 1 THEN <<>> ELSE <<Vehicle("vehicle_3", lane, s[2], s[3])>>))

HPObservations ==
    {HPObservation(s, 1, n) : s \in HPLeaderSituations, n \in NeighbourSituations}
    \cup UNION {{HPObservation(s, lane, n) :
                    s \in EdgeLeaderSituations, n \in EdgeNeighbourSituations(lane)} :
                  lane \in {0, 3}}

-----------------------------------------------------------------------------
(* The state machine *)

\* no method other than update has been called
NoCall == [name |-> "None"]

\* the fields of the machine object, as the record the operators work on
Self == [current_state |-> current_state,
         time_in_state |-> time_in_state,
         transition_history |-> transition_history,
         last_action |-> last_action,
         action_hold_time |-> action_hold_time,
         lane_change_start_time |-> lane_change_start_time,
         initial_gap_at_lc_start |-> initial_gap_at_lc_start]

\* BaseFSM.__init__ and the __init__ of the class constructed
Constructed(class) ==
    /\ machine = class
    /\ current_state = CASE class = "ACCFSM" -> ACC("CRUISING")
                         [] class = "LKAACCFSM" -> LKA("CRUISING")
                         [] class = "HighwayPilotFSM" -> HP("CRUISING")
    /\ time_in_state = 0
    /\ transition_history = <<>>
    /\ last_action = IF class = "ACCFSM" THEN IDLE ELSE None
    /\ action_hold_time = IF class = "ACCFSM" THEN 0 ELSE None
    /\ lane_change_start_time = IF class = "HighwayPilotFSM" THEN 0 ELSE None
    /\ initial_gap_at_lc_start = None
    /\ observation = NoObservation
    /\ action = NoAction
    /\ state_at_entry = current_state
    /\ elapsed = 0
    /\ lane_change_target = None
    /\ command_change = [since |-> None, gap |-> None]
    /\ call = NoCall
    /\ result = None

\* the episode can take another update call of this dt
MaxElapsedACC == 5
MaxElapsedLKA == 5
MaxElapsedHP == 7
CanStep(dt, max_half_seconds) == elapsed + dt <= max_half_seconds * 50

\* the timing of command changes: since = the dt accumulated since the last cycle
\* whose command differed from the one of the cycle before it (None before the
\* first such cycle); gap = in such a cycle, the dt accumulated since the one
\* before (None in other cycles and in the first)
CommandChange(old, a, dt) ==
    IF action # NoAction /\ a # action
    THEN [since |-> 0, gap |-> IF old.since = None THEN None ELSE old.since + dt]
    ELSE [since |-> IF old.since = None THEN None ELSE old.since + dt, gap |-> None]

\* the lane a lane change is started toward: the lane beside the ego's, in the
\* cycle that returns the lateral command
LaneChangeTarget(r, obs) ==
    IF r.ret = LANE_LEFT THEN obs.ego.lane_index - 1
    ELSE IF r.ret = LANE_RIGHT THEN obs.ego.lane_index + 1
    ELSE lane_change_target

\* the fields after an update call that left r
Becomes(r, obs, dt) ==
    /\ current_state' = r.m.current_state
    /\ time_in_state' = r.m.time_in_state
    /\ transition_history' = r.m.transition_history
    /\ last_action' = r.m.last_action
    /\ action_hold_time' = r.m.action_hold_time
    /\ lane_change_start_time' = r.m.lane_change_start_time
    /\ initial_gap_at_lc_start' = r.m.initial_gap_at_lc_start
    /\ observation' = obs
    /\ action' = r.ret
    /\ state_at_entry' = current_state
    /\ elapsed' = elapsed + dt
    /\ lane_change_target' = LaneChangeTarget(r, obs)
    /\ command_change' = IF machine = "ACCFSM"
                         THEN CommandChange(command_change, r.ret, dt)
                         ELSE command_change
    /\ UNCHANGED <<machine, call, result>>

\* one call of ACCFSM.update
ACCUpdate ==
    /\ machine = "ACCFSM"
    /\ \E obs \in ACCObservations, dt \in ACCDtValues :
          /\ CanStep(dt, MaxElapsedACC)
          /\ Becomes(ACCFSM_update(Self, obs, dt), obs, dt)

\* one call of LKAACCFSM.update
LKAUpdate ==
    /\ machine = "LKAACCFSM"
    /\ \E obs \in LKAObservations, dt \in DtValues :
          /\ CanStep(dt, MaxElapsedLKA)
          /\ Becomes(LKAACCFSM_update(Self, obs, dt), obs, dt)

\* one call of HighwayPilotFSM.update
HPUpdate ==
    /\ machine = "HighwayPilotFSM"
    /\ \E obs \in HPObservations, dt \in DtValues :
          /\ CanStep(dt, MaxElapsedHP)
          /\ Becomes(HighwayPilotFSM_update(Self, obs, dt), obs, dt)

InitACC == Constructed("ACCFSM")
SpecACC == InitACC /\ [][ACCUpdate]_vars

InitLKA == Constructed("LKAACCFSM")
SpecLKA == InitLKA /\ [][LKAUpdate]_vars

InitHP == Constructed("HighwayPilotFSM")
SpecHP == InitHP /\ [][HPUpdate]_vars

Init == \E class \in {"ACCFSM", "LKAACCFSM", "HighwayPilotFSM"} : Constructed(class)
Next == ACCUpdate \/ LKAUpdate \/ HPUpdate
Spec == Init /\ [][Next]_vars

-----------------------------------------------------------------------------
(* The methods of BaseFSM, called on their own.  Any observation can be passed to
   them, so the observations are all the vehicle lists up to MaxVehicles long
   over a grid of lanes, offsets (behind, alongside, ahead) and velocities
   (slower than, as fast as, faster than the ego).                              *)

MaxVehicles == 2

\* SimulatorAdapter names the vehicles by their slot
VehicleIds == <<"vehicle_1", "vehicle_2", "vehicle_3", "vehicle_4">>

\* <<lane index, relative longitudinal offset, velocity>>
BaseVehicleSituations == {0, 1} \X {-2000, 0, 1500, 3000} \X {1000, 2000, 3000}

\* the observation of an ego in the lane given, with the vehicles of the situations f
BaseObservation(lane, f) ==
    Observation(2000, lane, 400 * lane,
                [i \in DOMAIN f |-> Vehicle(VehicleIds[i], f[i][1], f[i][2], f[i][3])])

\* the lanes asked for: those of the vehicles, the one left of lane 0 and an empty one
TargetLanes == -1..2

\* everything but call and result
fields == <<machine, current_state, time_in_state, transition_history, last_action,
            action_hold_time, lane_change_start_time, initial_gap_at_lc_start,
            observation, action, state_at_entry, elapsed, lane_change_target,
            command_change>>

\* a machine has been constructed and an observation is at hand
InitBase ==
    \E n \in 0..MaxVehicles, lane \in {0, 1} : \E f \in [1..n -> BaseVehicleSituations] :
        /\ machine = "HighwayPilotFSM"
        /\ current_state = HP("CRUISING")
        /\ time_in_state = 0
        /\ transition_history = <<>>
        /\ last_action = None
        /\ action_hold_time = None
        /\ lane_change_start_time = 0
        /\ initial_gap_at_lc_start = None
        /\ observation = BaseObservation(lane, f)
        /\ action = NoAction
        /\ state_at_entry = current_state
        /\ elapsed = 0
        /\ lane_change_target = None
        /\ command_change = [since |-> None, gap |-> None]
        /\ call = NoCall
        /\ result = None

\* self._calculate_ttc(ego_velocity, vehicle)
CalculateTtc ==
    \E i \in 1..Len(observation.vehicles) :
        /\ call' = [name |-> "_calculate_ttc",
                    ego_velocity |-> observation.ego.velocity,
                    vehicle |-> observation.vehicles[i]]
        /\ result' = calculate_ttc(observation.ego.velocity, observation.vehicles[i])
        /\ UNCHANGED fields

\* self._find_leader(observation)
FindLeader ==
    /\ call' = [name |-> "_find_leader"]
    /\ result' = find_leader(observation)
    /\ UNCHANGED fields

\* self._measure_gap_on_lane(observation, target_lane)
MeasureGapOnLane ==
    \E target_lane \in TargetLanes :
        /\ call' = [name |-> "_measure_gap_on_lane", target_lane |-> target_lane]
        /\ result' = measure_gap_on_lane(observation, target_lane)
        /\ UNCHANGED fields

NextBase == CalculateTtc \/ FindLeader \/ MeasureGapOnLane
SpecBase == InitBase /\ [][NextBase]_vars

-----------------------------------------------------------------------------
(* Construction from a configuration: which tactical parameters it names is what
   decides whether __init__ returns a machine.                                  *)

\* the parameters __init__ reads with tactical_params[...], in the order read
RequiredParameters == <<"target_velocity", "time_headway", "emergency_ttc", "min_gap">>

\* parameters read with tactical_params.get(..., default)
OptionalParameters ==
    {"critical_ttc", "warning_distance_ratio", "lane_center_tolerance",
     "min_gap_for_lane_change", "abort_if_gap_shrinks_by"}

ParameterNames == {RequiredParameters[i] : i \in 1..Len(RequiredParameters)}
                      \cup OptionalParameters

\* __init__ with a default for min_gap
construct_min_gap_default(class, keys) ==
    LET missing == {i \in 1..Len(RequiredParameters) :
                      RequiredParameters[i] \notin keys \cup {"min_gap"}}
    IN  IF missing = {} THEN [raised |-> "None", key |-> "None"]
        ELSE [raised |-> "KeyError",
              key |-> RequiredParameters[CHOOSE i \in missing : \A j \in missing : i <= j]]

\* what __init__ of any of the three classes does with the keys of tactical_params:
\* the first required key that is missing raises KeyError
construct(class, keys) ==
    LET missing == {i \in 1..Len(RequiredParameters) : RequiredParameters[i] \notin keys}
    IN  IF missing = {} THEN [raised |-> "None", key |-> "None"]
        ELSE [raised |-> "KeyError",
              key |-> RequiredParameters[CHOOSE i \in missing : \A j \in missing : i <= j]]

\* no machine exists yet
InitConstruct ==
    /\ machine = "None"
    /\ current_state = None
    /\ time_in_state = None
    /\ transition_history = <<>>
    /\ last_action = None
    /\ action_hold_time = None
    /\ lane_change_start_time = None
    /\ initial_gap_at_lc_start = None
    /\ observation = NoObservation
    /\ action = NoAction
    /\ state_at_entry = None
    /\ elapsed = 0
    /\ lane_change_target = None
    /\ command_change = [since |-> None, gap |-> None]
    /\ call = NoCall
    /\ result = None

\* class(ads_config), for a class and a configuration
Construct ==
    /\ machine = "None"
    /\ \E class \in {"ACCFSM", "LKAACCFSM", "HighwayPilotFSM"}, keys \in SUBSET ParameterNames :
          /\ call' = [name |-> "__init__", class |-> class, tactical_params |-> keys]
          /\ result' = construct(class, keys)
          /\ IF construct(class, keys).raised = "None"
             THEN /\ machine' = class
                  /\ current_state' = CASE class = "ACCFSM" -> ACC("CRUISING")
                                        [] class = "LKAACCFSM" -> LKA("CRUISING")
                                        [] class = "HighwayPilotFSM" -> HP("CRUISING")
                  /\ state_at_entry' = current_state'
                  /\ time_in_state' = 0
                  /\ last_action' = IF class = "ACCFSM" THEN IDLE ELSE None
                  /\ action_hold_time' = IF class = "ACCFSM" THEN 0 ELSE None
                  /\ lane_change_start_time' = IF class = "HighwayPilotFSM" THEN 0 ELSE None
                  /\ UNCHANGED <<transition_history, initial_gap_at_lc_start, observation,
                                 action, elapsed, lane_change_target, command_change>>
             ELSE UNCHANGED fields

SpecConstruct == InitConstruct /\ [][Construct]_vars

-----------------------------------------------------------------------------
(* A lane change of HighwayPilotFSM, followed to its end.  The episode begins *)
(* after three update calls that brought a fresh machine to a PREPARING     *)
(* state; while the machine is executing or aborting a lane change the      *)
(* caller keeps calling update, each call with a dt of DtValues.            *)

\* a HighwayPilotFSM as __init__ leaves it
Fresh == [current_state |-> HP("CRUISING"),
          time_in_state |-> 0,
          transition_history |-> <<>>,
          last_action |-> None,
          action_hold_time |-> None,
          lane_change_start_time |-> 0,
          initial_gap_at_lc_start |-> None]

\* the machine after the update calls <<observation, dt>> of calls, in order
RECURSIVE After(_, _)
After(m, calls) ==
    IF calls = <<>> THEN m
    ELSE After(HighwayPilotFSM_update(m, Head(calls)[1], Head(calls)[2]).m, Tail(calls))

\* the calls that lead to EVALUATING_OVERTAKE: a slower leader at 25 m, then, half
\* a second of following later, one that is faster by 10 m/s
ToEvaluating ==
    << <<HPObservation(<<3000, 2500, 2000>>, 1, <<>>), 50>>,
       <<HPObservation(<<2000, 2500, 3000>>, 1, <<>>), 100>> >>

\* the third call: the left lane free, or the left lane blocked and the right free
ToPreparing ==
    {<<HPObservation(<<3000, 4000, 2000>>, 1, <<>>), 50>>,
     <<HPObservation(<<3000, 4000, 2000>>, 1, << <<-1, 2000>>, <<1, 4500>> >>), 50>>}

InitLaneChange ==
    \E third \in ToPreparing :
        LET m == After(Fresh, ToEvaluating \o <<third>>)
        IN  /\ machine = "HighwayPilotFSM"
            /\ current_state = m.current_state
            /\ time_in_state = m.time_in_state
            /\ transition_history = m.transition_history
            /\ last_action = m.last_action
            /\ action_hold_time = m.action_hold_time
            /\ lane_change_start_time = m.lane_change_start_time
            /\ initial_gap_at_lc_start = m.initial_gap_at_lc_start
            /\ observation = third[1]
            /\ action = IDLE
            /\ state_at_entry = HP("EVALUATING_OVERTAKE")
            /\ elapsed = 200
            /\ lane_change_target = None
            /\ command_change = [since |-> None, gap |-> None]
            /\ call = NoCall
            /\ result = None

\* the episode ends MaxElapsedLC half-seconds after the machine was constructed,
\* but not in the middle of a lane change
MaxElapsedLC == 7
InLaneChange ==
    current_state \in {HP("EXECUTING_LC_LEFT"), HP("EXECUTING_LC_RIGHT"),
                       HP("ABORTING_LANE_CHANGE")}

\* the observations given during the lane change, the ego in lane 1: no leader; a
\* leader with a TTC of 4 s, of 2.5 s (abort), of 0.75 s (emergency); the target
\* lane free, or with a vehicle 20 m behind or ahead, 45 m or 30 m away
LaneChangeObservations ==
    {HPObservation(<<3000>>, 1, <<>>),
     HPObservation(<<3000, 4000, 2000>>, 1, <<>>),
     HPObservation(<<3000, 2500, 2000>>, 1, <<>>),
     HPObservation(<<2500, 1500, 500>>, 1, <<>>),
     HPObservation(<<3000, 4000, 2000>>, 1, << <<-1, -2000>> >>),
     HPObservation(<<3000, 4000, 2000>>, 1, << <<-1, 2000>>, <<1, 4500>> >>),
     HPObservation(<<3000, 4000, 2000>>, 1, << <<-1, 2000>>, <<1, -3000>> >>)}

\* one call of HighwayPilotFSM.update
LaneChangeUpdate ==
    /\ machine = "HighwayPilotFSM"
    /\ \E obs \in LaneChangeObservations, dt \in DtValues :
          /\ InLaneChange \/ CanStep(dt, MaxElapsedLC)
          /\ Becomes(HighwayPilotFSM_update(Self, obs, dt), obs, dt)

\* update is called again and again as long as the episode lasts
SpecLaneChange ==
    InitLaneChange /\ [][LaneChangeUpdate]_vars /\ WF_vars(LaneChangeUpdate)

-----------------------------------------------------------------------------
(* HighwayPilotFSM with an ego that drifts off the centre of its lane: lane 1,   *)
(* lateral positions as for LKAACCFSM, with and without a leader.               *)

\* <<ego velocity>> or <<ego velocity, leader offset, leader velocity>>
DriftSituations ==
    {<<3000>>, <<2500>>, <<3000, 4000, 2000>>, <<2500, 1500, 500>>, <<2000, 2500, 3000>>}

DriftObservations ==
    {Observation(s[1], 1, y,
                 IF Len(s) = 1 THEN <<>> ELSE <<Vehicle("vehicle_3", 1, s[2], s[3])>>) :
        s \in DriftSituations, y \in LateralPositions}

MaxElapsedDrift == 4

\* one call of HighwayPilotFSM.update with such an observation
DriftUpdate ==
    /\ machine = "HighwayPilotFSM"
    /\ \E obs \in DriftObservations, dt \in DtValues :
          /\ CanStep(dt, MaxElapsedDrift)
          /\ Becomes(HighwayPilotFSM_update(Self, obs, dt), obs, dt)

SpecDrift == InitHP /\ [][DriftUpdate]_vars

-----------------------------------------------------------------------------
(* The three machines with a slow ego: at 10 m/s the time-headway distance  *)
(* (15 m) is below min_gap (25 m).                                          *)

\* <<ego velocity>> or <<ego velocity, leader offset, leader velocity>>: free road,
\* a stopped leader at 20 m (TTC 2 s), a leader at 19 m (TTC 3.8 s), one at 30 m,
\* and a leader at 40 m for an ego at 30 m/s
LowSpeedSituations ==
    {<<1000>>, <<1000, 2000, 0>>, <<1000, 1900, 500>>, <<1000, 3000, 500>>,
     <<3000, 4000, 2000>>}

LowSpeedObservations ==
    {Observation(s[1], 1, 400,
                 IF Len(s) = 1 THEN <<>> ELSE <<Vehicle("vehicle_3", 1, s[2], s[3])>>) :
        s \in LowSpeedSituations}

MaxElapsedLowSpeed == 5

\* one update call of the machine constructed, with such an observation
LowSpeedUpdate ==
    \E obs \in LowSpeedObservations, dt \in DtValues :
        /\ CanStep(dt, MaxElapsedLowSpeed)
        /\ \/ /\ machine = "ACCFSM"
              /\ Becomes(ACCFSM_update(Self, obs, dt), obs, dt)
           \/ /\ machine = "LKAACCFSM"
              /\ Becomes(LKAACCFSM_update(Self, obs, dt), obs, dt)
           \/ /\ machine = "HighwayPilotFSM"
              /\ Becomes(HighwayPilotFSM_update(Self, obs, dt), obs, dt)

SpecLowSpeed == Init /\ [][LowSpeedUpdate]_vars

-----------------------------------------------------------------------------
(* ACCFSM and LKAACCFSM under a constant observation.  One warm-up call     *)
(* brings the fresh machine to a starting state; from then on every call    *)
(* supplies the same observation.                                           *)

\* an ACCFSM or LKAACCFSM as __init__ leaves it
FreshOf(class) ==
    [current_state |-> IF class = "ACCFSM" THEN ACC("CRUISING") ELSE LKA("CRUISING"),
     time_in_state |-> 0,
     transition_history |-> <<>>,
     last_action |-> IF class = "ACCFSM" THEN IDLE ELSE None,
     action_hold_time |-> IF class = "ACCFSM" THEN 0 ELSE None,
     lane_change_start_time |-> None,
     initial_gap_at_lc_start |-> None]

\* update of the class given
UpdateOf(class, m, obs, dt) ==
    IF class = "ACCFSM" THEN ACCFSM_update(m, obs, dt) ELSE LKAACCFSM_update(m, obs, dt)

\* the warm-up call, half a second long, leaves the machine in CRUISING (free
\* road), FOLLOWING (leader at 38 m), EMERGENCY_BRAKE (leader at 15 m, TTC 0.75 s)
\* or, LKAACCFSM only, LANE_CORRECTION (0.5 m off the centre)
WarmUpDt == 50
WarmUps(class) ==
    {Observation(3000, 1, 400, <<>>),
     Observation(3000, 1, 400, <<Vehicle("vehicle_3", 1, 3800, 2000)>>),
     Observation(2500, 1, 400, <<Vehicle("vehicle_3", 1, 1500, 500)>>)}
    \cup (IF class = "LKAACCFSM" THEN {Observation(3000, 1, 450, <<>>)} ELSE {})

\* the observations that can be held constant
SteadyObservations(class) ==
    IF class = "ACCFSM" THEN ACCObservations ELSE LKAObservations

\* the state after the warm-up call and the first call with the constant observation
InitSteady ==
    \E class \in {"ACCFSM", "LKAACCFSM"} :
        \E warm \in WarmUps(class), obs \in SteadyObservations(class), dt \in DtValues :
            LET w == UpdateOf(class, FreshOf(class), warm, WarmUpDt)
                r == UpdateOf(class, w.m, obs, dt)
            IN  /\ machine = class
                /\ current_state = r.m.current_state
                /\ time_in_state = r.m.time_in_state
                /\ transition_history = r.m.transition_history
                /\ last_action = r.m.last_action
                /\ action_hold_time = r.m.action_hold_time
                /\ lane_change_start_time = r.m.lane_change_start_time
                /\ initial_gap_at_lc_start = r.m.initial_gap_at_lc_start
                /\ observation = obs
                /\ action = r.ret
                /\ state_at_entry = w.m.current_state
                /\ elapsed = WarmUpDt + dt
                /\ lane_change_target = None
                /\ command_change = [since |-> IF class = "ACCFSM" /\ r.ret # w.ret
                                               THEN 0 ELSE None,
                                     gap |-> None]
                /\ call = NoCall
                /\ result = None

MaxElapsedSteady == 7

\* one more update call with the observation of the call before
SteadyUpdate ==
    \E dt \in DtValues :
        /\ CanStep(dt, MaxElapsedSteady)
        /\ Becomes(UpdateOf(machine, Self, observation, dt), observation, dt)

SpecSteady == InitSteady /\ [][SteadyUpdate]_vars

-----------------------------------------------------------------------------
(* Properties *)

\* an update call has returned
Called == action # NoAction

\* the leader's distance and time-to-collision, as the properties speak of them
HasLeader(obs) == find_leader(obs) # NoVehicle
LeaderDistance(obs) == find_leader(obs).relative_longitudinal
LeaderTtc(obs) == calculate_ttc(obs.ego.velocity, find_leader(obs))

\* emergency condition (a): distance < 0.8 * min_gap and TTC < critical_ttc
EmergencyA(obs) ==
    /\ HasLeader(obs)
    /\ 10 * LeaderDistance(obs) < 8 * min_gap
    /\ TtcLess(LeaderTtc(obs), critical_ttc)

\* emergency condition (b): TTC < emergency_ttc and distance < 0.7 * safe distance,
\* safe distance = max(min_gap, time_headway * ego velocity)
EmergencyB(obs) ==
    /\ HasLeader(obs)
    /\ TtcLess(LeaderTtc(obs), emergency_ttc)
    /\ 1000 * LeaderDistance(obs) < 7 * Max(100 * min_gap, time_headway * obs.ego.velocity)

\* a leader with TTC below emergency_ttc
TtcEmergency(obs) == HasLeader(obs) /\ TtcLess(LeaderTtc(obs), emergency_ttc)

\* C1: in ACCFSM an update whose observation has a leader in emergency condition
\* (a) or (b) returns SLOWER and ends in EMERGENCY_BRAKE, whatever the state and
\* the action-smoothing memory were.
C1_EmergencyDominance ==
    (machine = "ACCFSM" /\ Called /\ (EmergencyA(observation) \/ EmergencyB(observation)))
        => (action = SLOWER /\ current_state = ACC("EMERGENCY_BRAKE"))

\* C1's case: the emergency cycle changes the command less than min_action_hold
\* after the previous change, from FOLLOWING: smoothing would have held the old one.
C1_Witness ==
    /\ machine = "ACCFSM"
    /\ EmergencyB(observation) /\ ~EmergencyA(observation)
    /\ state_at_entry = ACC("FOLLOWING")
    /\ current_state = ACC("EMERGENCY_BRAKE")
    /\ action = SLOWER
    /\ command_change.gap # None
    /\ command_change.gap < min_action_hold

\* C2: in LKAACCFSM and HighwayPilotFSM an update whose observation has a leader
\* with TTC below emergency_ttc returns SLOWER and ends in EMERGENCY_BRAKE, from
\* every state.
C2_EmergencyWins ==
    (machine \in {"LKAACCFSM", "HighwayPilotFSM"} /\ Called /\ TtcEmergency(observation))
        => /\ action = SLOWER
           /\ current_state = IF machine = "LKAACCFSM" THEN LKA("EMERGENCY_BRAKE")
                              ELSE HP("EMERGENCY_BRAKE")

\* C2's case: the emergency arrives while HighwayPilotFSM is executing a lane change.
C2_Witness ==
    /\ machine = "HighwayPilotFSM"
    /\ state_at_entry \in {HP("EXECUTING_LC_LEFT"), HP("EXECUTING_LC_RIGHT")}
    /\ TtcEmergency(observation)
    /\ current_state = HP("EMERGENCY_BRAKE")
    /\ action = SLOWER

\* C3: the current state of each machine is a member of the state set its class
\* declares.
C3_StateInDeclaredSet ==
    current_state \in (CASE machine = "ACCFSM" -> ACCState
                         [] machine = "LKAACCFSM" -> LKAACCState
                         [] machine = "HighwayPilotFSM" -> HighwayPilotState)

\* the gap on the lane the lane change was started toward is smaller than the gap
\* recorded at its start by more than abort_if_gap_shrinks_by
TargetGapShrunk(obs) ==
    LET now == measure_gap_on_lane(obs, lane_change_target)
    IN  /\ now # Inf
        /\ \/ initial_gap_at_lc_start = Inf
           \/ initial_gap_at_lc_start - now > abort_if_gap_shrinks_by

\* C4: a HighwayPilotFSM update that begins in an executing-lane-change state, with
\* no emergency, in which the gap on the target lane has shrunk by more than
\* abort_if_gap_shrinks_by since the start, ends in ABORTING_LANE_CHANGE and
\* returns SLOWER.
C4_AbortOnGapShrink ==
    (/\ machine = "HighwayPilotFSM"
     /\ state_at_entry \in {HP("EXECUTING_LC_LEFT"), HP("EXECUTING_LC_RIGHT")}
     /\ ~TtcEmergency(observation)
     /\ TargetGapShrunk(observation))
        => (current_state = HP("ABORTING_LANE_CHANGE") /\ action = SLOWER)

\* C5: in ACCFSM two cycles that each change the emitted command are at least
\* min_action_hold apart.
C5_HoldTime ==
    (machine = "ACCFSM" /\ command_change.gap # None)
        => command_change.gap >= min_action_hold

\* C5 as amended: two cycles that each change the emitted command are at least
\* min_action_hold apart, unless the later one is an emergency-braking cycle
\* (emergency condition (a) or (b)).
C5_HoldTimeOutsideEmergency ==
    (/\ machine = "ACCFSM"
     /\ command_change.gap # None
     /\ ~(EmergencyA(observation) \/ EmergencyB(observation)))
        => command_change.gap >= min_action_hold

\* C5's case: a command change outside an emergency, after an earlier change.
C5_Witness ==
    /\ machine = "ACCFSM"
    /\ command_change.gap # None
    /\ ~(EmergencyA(observation) \/ EmergencyB(observation))
    /\ action = FASTER

\* C6: in ACCFSM an update that begins in FOLLOWING and whose observation has no
\* leader ends in CRUISING and returns FASTER.
C6_NoLeaderRecovery ==
    (machine = "ACCFSM" /\ Called /\ state_at_entry = ACC("FOLLOWING") /\ ~HasLeader(observation))
        => (current_state = ACC("CRUISING") /\ action = FASTER)

\* C6 as amended: such an update ends in CRUISING; it returns FASTER when the last
\* command was FASTER or the hold timer, with this call's dt, has reached
\* min_action_hold, and the last command otherwise.
C6_NoLeaderRecoverySmoothed ==
    [][(machine = "ACCFSM" /\ current_state = ACC("FOLLOWING") /\ ~HasLeader(observation'))
          => /\ current_state' = ACC("CRUISING")
             /\ action' = IF \/ last_action = FASTER
                             \/ action_hold_time + (elapsed' - elapsed) >= min_action_hold
                          THEN FASTER ELSE last_action]_vars

\* C6's case: the leader disappears and the hold lets the command change to FASTER.
C6_Witness ==
    /\ machine = "ACCFSM"
    /\ state_at_entry = ACC("FOLLOWING")
    /\ ~HasLeader(observation)
    /\ current_state = ACC("CRUISING")
    /\ action = FASTER
    /\ command_change.since = 0

\* C7: in LKAACCFSM an update that begins in FOLLOWING and whose observation has
\* no leader ends in CRUISING and returns FASTER, whatever the lateral offset.
C7_NoLeaderRecovery ==
    (machine = "LKAACCFSM" /\ Called /\ state_at_entry = LKA("FOLLOWING")
       /\ ~HasLeader(observation))
        => (current_state = LKA("CRUISING") /\ action = FASTER)

\* the ego's lateral offset from the centre of its lane, 4 m per lane
LateralOffset(obs) == obs.ego.position[2] - 400 * obs.ego.lane_index

\* C7 as amended: it does so when the magnitude of the lateral offset is at most
\* lane_center_tolerance; with a larger offset the cycle ends in LANE_CORRECTION.
C7_NoLeaderRecoveryInLane ==
    (machine = "LKAACCFSM" /\ Called /\ state_at_entry = LKA("FOLLOWING")
       /\ ~HasLeader(observation))
        => IF Abs(LateralOffset(observation)) <= lane_center_tolerance
           THEN current_state = LKA("CRUISING") /\ action = FASTER
           ELSE current_state = LKA("LANE_CORRECTION")

\* C7's case: the leader disappears while the ego is off centre within the tolerance.
C7_Witness ==
    /\ machine = "LKAACCFSM"
    /\ state_at_entry = LKA("FOLLOWING")
    /\ ~HasLeader(observation)
    /\ LateralOffset(observation) = 20
    /\ current_state = LKA("CRUISING")
    /\ action = FASTER

\* C8: in HighwayPilotFSM an update that begins in FOLLOWING, however that state
\* was reached, and whose observation has no leader ends in CRUISING and returns
\* FASTER.
C8_NoLeaderRecovery ==
    (machine = "HighwayPilotFSM" /\ Called /\ state_at_entry.value = "FOLLOWING"
       /\ ~HasLeader(observation))
        => (current_state.value = "CRUISING" /\ action = FASTER)

\* the scenario of C9: ego at 30 m/s, a leader in its lane at the offset given,
\* driving 20 m/s
Scenario(offset) ==
    Observation(3000, 1, 400, Bystanders(1) \o <<Vehicle("vehicle_3", 1, offset, 2000)>>)

C10_ContextCleared ==
    (machine = "HighwayPilotFSM"
       /\ current_state \notin {HP("EXECUTING_LC_LEFT"), HP("EXECUTING_LC_RIGHT")})
        => initial_gap_at_lc_start = None


\* C11: LKAACCFSM and HighwayPilotFSM escalate to EMERGENCY_BRAKE exactly when the
\* leader is in emergency condition (a) or (b) of ACCFSM.
C11_SameGuard ==
    (/\ machine \in {"LKAACCFSM", "HighwayPilotFSM"}
     /\ Called
     /\ state_at_entry.value # "EMERGENCY_BRAKE")
        => (current_state.value = "EMERGENCY_BRAKE"
              <=> (EmergencyA(observation) \/ EmergencyB(observation)))

\* C11 as amended: they escalate exactly when the leader's TTC is below
\* emergency_ttc, whatever its distance; with critical_ttc <= emergency_ttc this
\* covers every observation in condition (a) or (b), and more.
C11_TtcGuard ==
    (machine \in {"LKAACCFSM", "HighwayPilotFSM"} /\ Called)
        => /\ (EmergencyA(observation) \/ EmergencyB(observation))
                => current_state.value = "EMERGENCY_BRAKE"
           /\ state_at_entry.value # "EMERGENCY_BRAKE"
                => (current_state.value = "EMERGENCY_BRAKE" <=> TtcEmergency(observation))

\* C11's case: an escalation with neither condition (a) nor (b).
C11_Witness ==
    /\ machine = "LKAACCFSM"
    /\ state_at_entry = LKA("FOLLOWING")
    /\ TtcEmergency(observation)
    /\ ~(EmergencyA(observation) \/ EmergencyB(observation))
    /\ current_state = LKA("EMERGENCY_BRAKE")
    /\ action = SLOWER


\* the states a transition can be asked for: the members of the three Enum classes
AnyState == ACCState \cup LKAACCState \cup HighwayPilotState

\* C12: transition_to(new_state, reason) with new_state equal to the current state
\* changes nothing; otherwise it appends exactly one record (from-state the
\* previous current state, to-state new_state, time-in-previous-state the in-state
\* timer before the call), sets the current state and resets the in-state timer.
C12_TransitionFrame ==
    \A new_state \in AnyState :
        LET m == Self
            r == transition_to(m, new_state, "reason")
            h == r.transition_history
        IN  IF new_state = m.current_state
            THEN r = m
            ELSE /\ Len(h) = Len(m.transition_history) + 1
                 /\ SubSeq(h, 1, Len(m.transition_history)) = m.transition_history
                 /\ h[Len(h)].from_state = m.current_state.value
                 /\ h[Len(h)].to_state = new_state.value
                 /\ h[Len(h)].time_in_previous_state = m.time_in_state
                 /\ r.current_state = new_state
                 /\ r.time_in_state = 0
                 /\ r = [m EXCEPT !.transition_history = h,
                                  !.current_state = new_state,
                                  !.time_in_state = 0]

\* C12's case: the emergency check of LKAACCFSM has called _transition_to with
\* EMERGENCY_BRAKE twice; the first call made the record, the second changed nothing.
C12_Witness ==
    /\ machine = "LKAACCFSM"
    /\ state_at_entry = LKA("EMERGENCY_BRAKE")
    /\ TtcEmergency(observation)
    /\ current_state = LKA("EMERGENCY_BRAKE")
    /\ time_in_state > 0
    /\ Len(transition_history) = 1
    /\ transition_history[1].from_state = "CRUISING"
    /\ transition_history[1].to_state = "EMERGENCY_BRAKE"
    /\ transition_history[1].time_in_previous_state > 0


C14_AppendOnly ==
    [][LET h == transition_history
           n == Len(transition_history)
       IN  /\ Len(h') >= n
           /\ SubSeq(h', 1, n) = h
           /\ Len(h') = n + (IF current_state' # current_state THEN 1 ELSE 0)
           /\ current_state' # current_state
                => /\ h'[n + 1].from_state = current_state.value
                   /\ h'[n + 1].to_state = current_state'.value]_vars

\* C14's case: a second record has just been appended behind the first.
C14_Witness ==
    /\ Called
    /\ Len(transition_history) = 2
    /\ state_at_entry # current_state
    /\ transition_history[1].to_state = state_at_entry.value
    /\ transition_history[2].from_state = state_at_entry.value
    /\ transition_history[2].to_state = current_state.value


\* C15: _calculate_ttc returns +infinity when the offset is <= 0 or the closing
\* rate (ego velocity minus vehicle velocity) is <= 0, and offset / closing rate
\* otherwise; the result is never negative.
C15_TimeToCollision ==
    call.name = "_calculate_ttc"
        => LET offset == call.vehicle.relative_longitudinal
               closing == call.ego_velocity - call.vehicle.velocity
           IN  IF offset <= 0 \/ closing <= 0
               THEN result.inf
               ELSE /\ ~result.inf
                    /\ result.den > 0
                    /\ result.num >= 0
                    /\ result.num * closing = offset * result.den

\* C15's case: a vehicle ahead with a closing rate of zero.
C15_Witness ==
    /\ call.name = "_calculate_ttc"
    /\ call.vehicle.relative_longitudinal > 0
    /\ call.ego_velocity = call.vehicle.velocity
    /\ result.inf

\* the vehicles of the observation that are in the ego's lane and ahead of it
Ahead(obs) ==
    {i \in 1..Len(obs.vehicles) :
        /\ obs.vehicles[i].lane_index = obs.ego.lane_index
        /\ obs.vehicles[i].relative_longitudinal > 0}

\* C16: _find_leader returns none when no vehicle is in the ego's lane with a
\* strictly positive offset; otherwise the vehicle of the ego's lane with the
\* minimum strictly positive offset, the first in list order among equals.
C16_FindLeader ==
    call.name = "_find_leader"
        => LET vs == observation.vehicles
           IN  IF Ahead(observation) = {}
               THEN result = NoVehicle
               ELSE \E i \in Ahead(observation) :
                       /\ result = vs[i]
                       /\ \A j \in Ahead(observation) :
                            /\ vs[i].relative_longitudinal <= vs[j].relative_longitudinal
                            /\ vs[i].relative_longitudinal = vs[j].relative_longitudinal
                                 => i <= j

\* C16's case: two vehicles ahead in the ego's lane at the same offset.
C16_Witness ==
    /\ call.name = "_find_leader"
    /\ Ahead(observation) = {1, 2}
    /\ observation.vehicles[1].relative_longitudinal
         = observation.vehicles[2].relative_longitudinal
    /\ observation.vehicles[1].velocity # observation.vehicles[2].velocity
    /\ result = observation.vehicles[1]

\* C17: _measure_gap_on_lane returns the minimum of the absolute offsets of the
\* vehicles in the target lane, and +infinity exactly when the lane has no vehicle.
C17_MeasureGap ==
    call.name = "_measure_gap_on_lane"
        => LET vs == observation.vehicles
               on_lane == {i \in 1..Len(vs) : vs[i].lane_index = call.target_lane}
           IN  IF on_lane = {}
               THEN result = Inf
               ELSE /\ result # Inf
                    /\ \E i \in on_lane : result = Abs(vs[i].relative_longitudinal)
                    /\ \A i \in on_lane : result <= Abs(vs[i].relative_longitudinal)


\* C18: ACCFSM and LKAACCFSM return only IDLE, FASTER or SLOWER from update;
\* HighwayPilotFSM returns one of LANE_LEFT, IDLE, LANE_RIGHT, FASTER, SLOWER.
C18_Commands ==
    Called => IF machine \in {"ACCFSM", "LKAACCFSM"}
              THEN action \in {IDLE, FASTER, SLOWER}
              ELSE action \in {LANE_LEFT, IDLE, LANE_RIGHT, FASTER, SLOWER}

\* C18's case: LKAACCFSM corrects its lane position with a longitudinal command.
C18_Witness ==
    /\ machine = "LKAACCFSM"
    /\ state_at_entry = LKA("LANE_CORRECTION")
    /\ current_state = LKA("LANE_CORRECTION")
    /\ Abs(LateralOffset(observation)) > lane_center_tolerance
    /\ action = SLOWER

\* the states with a branch of their own in the dispatch of update
Dispatched ==
    CASE machine = "ACCFSM" -> {ACC("CRUISING"), ACC("FOLLOWING"), ACC("EMERGENCY_BRAKE")}
      [] machine = "LKAACCFSM" -> {LKA("CRUISING"), LKA("FOLLOWING"), LKA("LANE_CORRECTION"),
                                   LKA("EMERGENCY_BRAKE")}
      [] machine = "HighwayPilotFSM" ->
            {HP("CRUISING"), HP("FOLLOWING"), HP("EVALUATING_OVERTAKE"),
             HP("PREPARING_LC_LEFT"), HP("PREPARING_LC_RIGHT"),
             HP("EXECUTING_LC_LEFT"), HP("EXECUTING_LC_RIGHT"),
             HP("ABORTING_LANE_CHANGE"), HP("LANE_CORRECTION"), HP("EMERGENCY_BRAKE")}

\* the last update call went as far as the dispatch (no emergency command before
\* it), from a state the checks before the dispatch left as it was
ReachedDispatchUnchanged ==
    /\ Called
    /\ IF machine = "ACCFSM"
       THEN ~(EmergencyA(observation) \/ EmergencyB(observation))
            /\ ~(HasLeader(observation)
                   /\ ACC_level3(observation.ego.velocity, find_leader(observation)))
       ELSE ~TtcEmergency(observation)
    /\ machine = "LKAACCFSM" => Abs(LateralOffset(observation)) <= lane_center_tolerance
    /\ state_at_entry \notin {HP("EXECUTING_LC_LEFT"), HP("EXECUTING_LC_RIGHT")}

\* C19: in no reachable state does update fall through its dispatch: the state it
\* dispatches on has a branch of its own.
C19_NoFallThrough ==
    ReachedDispatchUnchanged => state_at_entry \in Dispatched

\* C20: constructing a machine from a configuration that lacks a required
\* parameter (target_velocity, time_headway, emergency_ttc, min_gap) raises an
\* error and yields no machine; the parameters with a default may be absent.
C20_RequiredParameters ==
    call.name = "__init__"
        => IF \E i \in 1..Len(RequiredParameters) :
                 RequiredParameters[i] \notin call.tactical_params
           THEN result.raised = "KeyError" /\ machine = "None"
           ELSE /\ result.raised = "None"
                /\ machine = call.class
                /\ current_state.value = "CRUISING"

\* C20's case: only min_gap is missing, for HighwayPilotFSM.
C20_Witness ==
    /\ call.name = "__init__"
    /\ call.class = "HighwayPilotFSM"
    /\ call.tactical_params = ParameterNames \ {"min_gap"}
    /\ result = [raised |-> "KeyError", key |-> "min_gap"]
    /\ machine = "None"


\* the gap update measures on the lane to the left (side = -1) or right (side = 1)
\* of the ego's
GapBeside(obs, side) == measure_gap_on_lane(obs, obs.ego.lane_index + side)

\* what C21 says of the lateral command cmd, given in cycles that begin in the
\* state preparing and toward the lane on the side given: the command is returned
\* only in such a cycle, without an emergency and with the gap at least
\* safe_gap_front, and that cycle records the start and ends in the state executing
LateralCommandRule(cmd, preparing, executing, side) ==
    /\ action' = cmd
          => /\ current_state = preparing
             /\ ~TtcEmergency(observation')
             /\ GapBeside(observation', side) >= safe_gap_front
             /\ lane_change_start_time' = get_current_time(Self)
             /\ initial_gap_at_lc_start' = GapBeside(observation', side)
             /\ current_state' = executing

C22_NoLaneChangeOffRoad ==
    machine = "HighwayPilotFSM"
        => /\ action = LANE_LEFT => observation.ego.lane_index # 0
           /\ action = LANE_RIGHT => observation.ego.lane_index # 3


\* the leader is in the too-close zone: nearer than 0.7 * safe distance, the safe
\* distance being max(min_gap, time_headway * ego velocity)
TooClose(obs) ==
    /\ HasLeader(obs)
    /\ 1000 * LeaderDistance(obs) < 7 * Max(100 * min_gap, time_headway * obs.ego.velocity)

\* C23: ACCFSM never returns FASTER in a cycle whose observation has a leader in
\* the too-close zone, whatever the state, the last command and the hold timer.
C23_NoFasterWhenTooClose ==
    (machine = "ACCFSM" /\ Called /\ TooClose(observation)) => action # FASTER


\* the softer proximity condition: distance < min_gap and TTC > critical_ttc
Proximity(obs) ==
    /\ HasLeader(obs)
    /\ LeaderDistance(obs) < min_gap
    /\ TtcGreater(LeaderTtc(obs), critical_ttc)

\* the machine as the emergency check of an update with observation obs and time
\* step dt finds it, and what the check leaves
AtCheck(dt) == [Self EXCEPT !.time_in_state = @ + dt, !.action_hold_time = @ + dt]
AfterCheck(obs, dt) == ACCFSM_emergency_check(AtCheck(dt), obs.ego.velocity, find_leader(obs))

\* C24: ACCFSM enters EMERGENCY_BRAKE only in an update whose observation has a
\* leader in emergency condition (a) or (b).  The proximity condition, when neither
\* (a) nor (b) holds, makes the emergency check move CRUISING to FOLLOWING and
\* leave FOLLOWING and EMERGENCY_BRAKE as they are, without returning a command:
\* the cycle that begins in CRUISING or FOLLOWING ends in FOLLOWING, the one that
\* begins in EMERGENCY_BRAKE ends there or (by the recovery of that state) in
\* FOLLOWING, and the command returned has passed the action smoothing.
C24_OnlyEmergencyBrakes ==
    [][machine = "ACCFSM"
          => LET obs == observation'
                 dt == elapsed' - elapsed
                 emergency == EmergencyA(obs) \/ EmergencyB(obs)
             IN  /\ (current_state' = ACC("EMERGENCY_BRAKE")
                       /\ current_state # ACC("EMERGENCY_BRAKE")) => emergency
                 /\ (Proximity(obs) /\ ~emergency)
                       => /\ AfterCheck(obs, dt).ret = NoAction
                          /\ AfterCheck(obs, dt).m =
                                IF current_state = ACC("CRUISING")
                                THEN transition_to(AtCheck(dt), ACC("FOLLOWING"), "Close distance")
                                ELSE AtCheck(dt)
                          /\ current_state \in {ACC("CRUISING"), ACC("FOLLOWING")}
                                => current_state' = ACC("FOLLOWING")
                          /\ current_state = ACC("EMERGENCY_BRAKE")
                                => current_state' \in {ACC("EMERGENCY_BRAKE"), ACC("FOLLOWING")}
                          /\ action' # last_action
                                => action_hold_time + dt >= min_action_hold]_vars

\* C24's case: the proximity condition alone has moved CRUISING to FOLLOWING, and
\* the command of the cycle is not SLOWER.
C24_Witness ==
    /\ machine = "ACCFSM"
    /\ state_at_entry = ACC("CRUISING")
    /\ Proximity(observation)
    /\ ~(EmergencyA(observation) \/ EmergencyB(observation))
    /\ current_state = ACC("FOLLOWING")
    /\ transition_history[Len(transition_history)].reason = "Close distance"
    /\ action # SLOWER


\* distance and TTC both clear the recovery thresholds of EMERGENCY_BRAKE:
\* distance > 1.2 * min_gap and TTC > 1.5 * critical_ttc
BothClear(obs) ==
    /\ 10 * LeaderDistance(obs) > 12 * min_gap
    /\ \/ LeaderTtc(obs).inf
       \/ 10 * LeaderTtc(obs).num * 100 > 15 * critical_ttc * LeaderTtc(obs).den

\* C25: with a leader, ACCFSM leaves EMERGENCY_BRAKE only to FOLLOWING, and only in
\* a cycle where distance and TTC both clear their recovery thresholds; in every
\* other cycle with a leader it stays.  It goes from EMERGENCY_BRAKE to CRUISING
\* only when no leader is observed.
C25_Recovery ==
    [][(machine = "ACCFSM" /\ current_state = ACC("EMERGENCY_BRAKE"))
          => IF HasLeader(observation')
             THEN current_state' = IF BothClear(observation')
                                   THEN ACC("FOLLOWING") ELSE ACC("EMERGENCY_BRAKE")
             ELSE current_state' = ACC("CRUISING")]_vars

\* the other two ways out of EMERGENCY_BRAKE: TTC > emergency_ttc at any distance;
\* and, at 15 m/s or more, TTC > critical_ttc with distance > 0.85 * min_gap
OtherwiseRecovers(obs) ==
    \/ TtcGreater(LeaderTtc(obs), emergency_ttc)
    \/ /\ obs.ego.velocity >= 1500
       /\ TtcGreater(LeaderTtc(obs), critical_ttc)
       /\ 100 * LeaderDistance(obs) > 85 * min_gap

\* C25 as amended: with a leader, ACCFSM leaves EMERGENCY_BRAKE only to FOLLOWING;
\* it does so exactly in the cycles without emergency condition (a) or (b) in
\* which distance and TTC both clear their recovery thresholds, or TTC exceeds
\* emergency_ttc, or the ego drives at least 15 m/s with TTC > critical_ttc and
\* distance > 0.85 * min_gap; in every other cycle with a leader it stays.  It goes
\* from EMERGENCY_BRAKE to CRUISING exactly when no leader is observed.
C25_ProgressiveRecovery ==
    [][(machine = "ACCFSM" /\ current_state = ACC("EMERGENCY_BRAKE"))
          => LET obs == observation'
             IN  IF ~HasLeader(obs) THEN current_state' = ACC("CRUISING")
                 ELSE IF EmergencyA(obs) \/ EmergencyB(obs)
                 THEN current_state' = ACC("EMERGENCY_BRAKE")
                 ELSE IF BothClear(obs) \/ OtherwiseRecovers(obs)
                 THEN current_state' = ACC("FOLLOWING")
                 ELSE current_state' = ACC("EMERGENCY_BRAKE")]_vars

\* C25's case: EMERGENCY_BRAKE is left for FOLLOWING with the leader at 22 m, which
\* is not beyond 1.2 * min_gap, and a TTC of 1.83 s, which is not beyond emergency_ttc.
C25_Witness ==
    /\ machine = "ACCFSM"
    /\ state_at_entry = ACC("EMERGENCY_BRAKE")
    /\ HasLeader(observation)
    /\ LeaderDistance(observation) = 2200
    /\ ~LeaderTtc(observation).inf
    /\ current_state = ACC("FOLLOWING")


\* the two executing-lane-change states
Executing == {HP("EXECUTING_LC_LEFT"), HP("EXECUTING_LC_RIGHT")}

\* a leader whose TTC is below abort_if_ttc_during_lc and not below emergency_ttc
TtcAbort(obs) ==
    /\ HasLeader(obs)
    /\ TtcLess(LeaderTtc(obs), abort_if_ttc_during_lc)
    /\ ~TtcLess(LeaderTtc(obs), emergency_ttc)

\* C26: HighwayPilotFSM enters ABORTING_LANE_CHANGE only from the two executing
\* states, and an update that begins in an executing state with a leader whose TTC
\* is below abort_if_ttc_during_lc and not below emergency_ttc ends in
\* ABORTING_LANE_CHANGE and returns SLOWER.
C26_AbortOnlyWhileExecuting ==
    (machine = "HighwayPilotFSM" /\ Called)
        => /\ current_state = HP("ABORTING_LANE_CHANGE")
                => state_at_entry \in Executing \cup {HP("ABORTING_LANE_CHANGE")}
           /\ (state_at_entry \in Executing /\ TtcAbort(observation))
                => (current_state = HP("ABORTING_LANE_CHANGE") /\ action = SLOWER)

\* C26's case: a lane change is aborted for the TTC (2.5 s) while the gap on the
\* target lane has not shrunk.
C26_Witness ==
    /\ machine = "HighwayPilotFSM"
    /\ state_at_entry \in Executing
    /\ TtcAbort(observation)
    /\ ~TargetGapShrunk(observation)
    /\ current_state = HP("ABORTING_LANE_CHANGE")
    /\ action = SLOWER


\* the time step of the cycle just taken
Dt == elapsed' - elapsed

\* C27: in ABORTING_LANE_CHANGE, a cycle without an emergency returns SLOWER and
\* stays while the time in that state, this cycle's dt included, is at most 1.0 s;
\* the first cycle in which it exceeds 1.0 s moves to FOLLOWING and returns IDLE.
\* Hence, update being called again and again, the machine always eventually
\* leaves ABORTING_LANE_CHANGE.
C27_AbortEnds ==
    /\ [][(/\ machine = "HighwayPilotFSM"
           /\ current_state = HP("ABORTING_LANE_CHANGE")
           /\ ~TtcEmergency(observation'))
             => IF time_in_state + Dt > 100
                THEN current_state' = HP("FOLLOWING") /\ action' = IDLE
                ELSE /\ current_state' = HP("ABORTING_LANE_CHANGE")
                     /\ action' = SLOWER
                     /\ time_in_state' = time_in_state + Dt]_vars
    /\ (current_state = HP("ABORTING_LANE_CHANGE"))
          ~> (current_state # HP("ABORTING_LANE_CHANGE"))

\* C27's case: the abort has ended in FOLLOWING, in a cycle that began with exactly
\* 1.0 s spent in ABORTING_LANE_CHANGE.
C27_Witness ==
    /\ machine = "HighwayPilotFSM"
    /\ state_at_entry = HP("ABORTING_LANE_CHANGE")
    /\ current_state = HP("FOLLOWING")
    /\ action = IDLE
    /\ transition_history[Len(transition_history)].time_in_previous_state = 150

\* the abort condition, as update evaluates it in an executing state
AbortCondition(obs) ==
    check_lane_change_abort_conditions(Self, obs, obs.ego.velocity, find_leader(obs))[1]

\* C28: in an executing-lane-change state, a cycle without an emergency and without
\* an abort condition returns IDLE and stays while the time in that state, this
\* cycle's dt included, is at most 0.5 s; the first cycle in which it exceeds 0.5 s
\* moves to CRUISING and returns FASTER.  Hence, update being called again and
\* again, the machine always eventually leaves the executing state, and it leaves
\* it for CRUISING, ABORTING_LANE_CHANGE or EMERGENCY_BRAKE.
C28_ExecutingEnds ==
    /\ [][(machine = "HighwayPilotFSM" /\ current_state \in Executing)
             => /\ (~TtcEmergency(observation') /\ ~AbortCondition(observation'))
                     => IF time_in_state + Dt > 50
                        THEN current_state' = HP("CRUISING") /\ action' = FASTER
                        ELSE /\ current_state' = current_state
                             /\ action' = IDLE
                             /\ time_in_state' = time_in_state + Dt
                /\ current_state' \in {current_state, HP("CRUISING"),
                                       HP("ABORTING_LANE_CHANGE"), HP("EMERGENCY_BRAKE")}]_vars
    /\ \A s \in Executing : (current_state = s) ~> (current_state # s)

\* C28's case: a lane change has completed in CRUISING, in a cycle that began with
\* exactly 0.5 s spent in EXECUTING_LANE_CHANGE_LEFT.
C28_Witness ==
    /\ machine = "HighwayPilotFSM"
    /\ state_at_entry = HP("EXECUTING_LC_LEFT")
    /\ current_state = HP("CRUISING")
    /\ action = FASTER
    /\ transition_history[Len(transition_history)].time_in_previous_state = 100


\* C29: HighwayPilotFSM moves FOLLOWING -> EVALUATING_OVERTAKE only in a cycle in
\* which it has been in FOLLOWING for longer than min_following_time_before_overtake,
\* the leader is slower than the ego by more than the velocity delta (5 m/s), and
\* the leader is farther than 0.8 * min_gap; it never does so while the leader is
\* as fast as the ego or faster.
C29_OvertakeSlowLeader ==
    [][(/\ machine = "HighwayPilotFSM"
        /\ current_state = HP("FOLLOWING")
        /\ current_state' = HP("EVALUATING_OVERTAKE"))
          => /\ time_in_state + Dt > min_following_time_before_overtake
             /\ HasLeader(observation')
             /\ observation'.ego.velocity - find_leader(observation').velocity
                   > Abs(velocity_delta_threshold)
             /\ 10 * LeaderDistance(observation') > 8 * min_gap]_vars


\* the lane on the side given exists (four lanes, 0 to 3) and its gap exceeds
\* min_gap_for_lane_change
LaneQualifies(obs, side) ==
    /\ obs.ego.lane_index + side \in 0..3
    /\ GapBeside(obs, side) > min_gap_for_lane_change

\* C30: a HighwayPilotFSM cycle that begins in EVALUATING_OVERTAKE, with a leader
\* and no emergency, ends in PREPARING_LANE_CHANGE_LEFT if the left lane qualifies
\* (also when the right one does), otherwise in PREPARING_LANE_CHANGE_RIGHT if the
\* right lane qualifies, otherwise in FOLLOWING; and every cycle that begins in
\* EVALUATING_OVERTAKE leaves it.
C30_Evaluation ==
    [][(machine = "HighwayPilotFSM" /\ current_state = HP("EVALUATING_OVERTAKE"))
          => /\ current_state' # HP("EVALUATING_OVERTAKE")
             /\ (HasLeader(observation') /\ ~TtcEmergency(observation'))
                   => current_state' =
                        IF LaneQualifies(observation', -1) THEN HP("PREPARING_LC_LEFT")
                        ELSE IF LaneQualifies(observation', 1) THEN HP("PREPARING_LC_RIGHT")
                        ELSE HP("FOLLOWING")]_vars

\* C30's case: both lanes qualify and the left one is taken.
C30_Witness ==
    /\ machine = "HighwayPilotFSM"
    /\ state_at_entry = HP("EVALUATING_OVERTAKE")
    /\ HasLeader(observation)
    /\ LaneQualifies(observation, -1)
    /\ LaneQualifies(observation, 1)
    /\ current_state = HP("PREPARING_LC_LEFT")
    /\ action = IDLE


\* the last three records of the history h name the state changes
\* FOLLOWING -> EVALUATING_OVERTAKE -> preparing -> executing
EndsWithOvertakeSequence(h, preparing, executing) ==
    LET n == Len(h)
    IN  /\ n >= 3
        /\ h[n - 2].from_state = "FOLLOWING"
        /\ h[n - 2].to_state = "EVALUATING_OVERTAKE"
        /\ h[n - 1].from_state = "EVALUATING_OVERTAKE"
        /\ h[n - 1].to_state = preparing
        /\ h[n].from_state = preparing
        /\ h[n].to_state = executing

\* C31: in HighwayPilotFSM a cycle that returns LANE_LEFT or LANE_RIGHT begins in
\* the matching PREPARING state, and the state changes before it were FOLLOWING ->
\* EVALUATING_OVERTAKE -> PREPARING (the three most recent ones: into FOLLOWING,
\* into EVALUATING_OVERTAKE, into PREPARING); no cycle that begins in an EXECUTING
\* state, ABORTING_LANE_CHANGE, CRUISING, FOLLOWING, EVALUATING_OVERTAKE or
\* EMERGENCY_BRAKE returns a lateral command.
C31_LateralOncePerLaneChange ==
    machine = "HighwayPilotFSM"
        => /\ action = LANE_LEFT
                => /\ state_at_entry = HP("PREPARING_LC_LEFT")
                   /\ EndsWithOvertakeSequence(transition_history,
                                               "PREPARING_LC_LEFT", "EXECUTING_LC_LEFT")
                   /\ Len(transition_history) >= 4
                   /\ transition_history[Len(transition_history) - 3].to_state = "FOLLOWING"
           /\ action = LANE_RIGHT
                => /\ state_at_entry = HP("PREPARING_LC_RIGHT")
                   /\ EndsWithOvertakeSequence(transition_history,
                                               "PREPARING_LC_RIGHT", "EXECUTING_LC_RIGHT")
                   /\ Len(transition_history) >= 4
                   /\ transition_history[Len(transition_history) - 3].to_state = "FOLLOWING"
           /\ state_at_entry.value \in {"EXECUTING_LC_LEFT", "EXECUTING_LC_RIGHT",
                                        "ABORTING_LANE_CHANGE", "CRUISING", "FOLLOWING",
                                        "EVALUATING_OVERTAKE", "EMERGENCY_BRAKE"}
                => action \notin {LANE_LEFT, LANE_RIGHT}

\* C31's case: the cycle after a LANE_RIGHT command begins in
\* EXECUTING_LANE_CHANGE_RIGHT, reached through FOLLOWING, EVALUATING_OVERTAKE and
\* PREPARING_LANE_CHANGE_RIGHT, and returns IDLE.
C31_Witness ==
    /\ machine = "HighwayPilotFSM"
    /\ state_at_entry = HP("EXECUTING_LC_RIGHT")
    /\ current_state = HP("EXECUTING_LC_RIGHT")
    /\ EndsWithOvertakeSequence(transition_history, "PREPARING_LC_RIGHT", "EXECUTING_LC_RIGHT")
    /\ action = IDLE


\* C32: an LKAACCFSM update without an emergency (no leader with TTC below
\* emergency_ttc) whose lateral offset has a magnitude above lane_center_tolerance
\* ends in LANE_CORRECTION, from CRUISING, FOLLOWING, EMERGENCY_BRAKE and
\* LANE_CORRECTION alike, whatever the longitudinal situation.
C32_DriftEndsInCorrection ==
    (/\ machine = "LKAACCFSM"
     /\ Called
     /\ ~TtcEmergency(observation)
     /\ Abs(LateralOffset(observation)) > lane_center_tolerance)
        => /\ current_state = LKA("LANE_CORRECTION")
           /\ state_at_entry \in {LKA("CRUISING"), LKA("FOLLOWING"),
                                  LKA("EMERGENCY_BRAKE"), LKA("LANE_CORRECTION")}

\* C32's case: the drift is seen in EMERGENCY_BRAKE with the leader's TTC not above
\* 3 s (the braking handler alone would have kept the state), and the cycle ends in
\* LANE_CORRECTION.
C32_Witness ==
    /\ machine = "LKAACCFSM"
    /\ state_at_entry = LKA("EMERGENCY_BRAKE")
    /\ HasLeader(observation)
    /\ ~TtcEmergency(observation)
    /\ ~TtcGreater(LeaderTtc(observation), 300)
    /\ Abs(LateralOffset(observation)) > lane_center_tolerance
    /\ current_state = LKA("LANE_CORRECTION")


\* C33: an LKAACCFSM cycle that begins in LANE_CORRECTION, without an emergency,
\* leaves the state exactly when the magnitude of the offset is below half the
\* tolerance: then it ends in FOLLOWING with a leader and in CRUISING without one
\* and returns IDLE; otherwise (also between half the tolerance and the tolerance)
\* it stays in LANE_CORRECTION and returns SLOWER or IDLE.
C33_CorrectionExit ==
    [][(/\ machine = "LKAACCFSM"
        /\ current_state = LKA("LANE_CORRECTION")
        /\ ~TtcEmergency(observation'))
          => IF 2 * Abs(LateralOffset(observation')) < lane_center_tolerance
             THEN /\ current_state' = IF HasLeader(observation')
                                       THEN LKA("FOLLOWING") ELSE LKA("CRUISING")
                  /\ action' = IDLE
             ELSE /\ current_state' = LKA("LANE_CORRECTION")
                  /\ action' \in {SLOWER, IDLE}]_vars

\* C33's case: in LANE_CORRECTION the offset is 0.2 m, between half the tolerance
\* and the tolerance, and the cycle stays there and returns SLOWER.
C33_Witness ==
    /\ machine = "LKAACCFSM"
    /\ state_at_entry = LKA("LANE_CORRECTION")
    /\ ~TtcEmergency(observation)
    /\ LateralOffset(observation) = 20
    /\ current_state = LKA("LANE_CORRECTION")
    /\ action = SLOWER


\* C34: a HighwayPilotFSM update without an emergency, begun outside a lane change
\* (not in EVALUATING_OVERTAKE, PREPARING, EXECUTING or ABORTING), whose lateral
\* offset has a magnitude above lane_center_tolerance ends in LANE_CORRECTION.
C34_LaneKeepingKept ==
    (/\ machine = "HighwayPilotFSM"
     /\ Called
     /\ ~TtcEmergency(observation)
     /\ state_at_entry.value \in {"CRUISING", "FOLLOWING", "LANE_CORRECTION", "EMERGENCY_BRAKE"}
     /\ Abs(LateralOffset(observation)) > lane_center_tolerance)
        => current_state.value = "LANE_CORRECTION"


\* the safe distance, in units of 1/10000 m: max(min_gap, time_headway * ego velocity)
SafeDistance(obs) == Max(100 * min_gap, time_headway * obs.ego.velocity)

\* the member named v of the state class of the machine constructed
Own(v) ==
    CASE machine = "ACCFSM" -> ACC(v)
      [] machine = "LKAACCFSM" -> LKA(v)
      [] OTHER -> HP(v)

\* the emergency condition of the machine constructed
Emergency(obs) ==
    IF machine = "ACCFSM" THEN EmergencyA(obs) \/ EmergencyB(obs) ELSE TtcEmergency(obs)

\* the leader is closer than the distance at which the machine constructed goes
\* from CRUISING to FOLLOWING: the safe distance, in ACCFSM times
\* warning_distance_ratio
InsideFollowThreshold(obs) ==
    /\ HasLeader(obs)
    /\ IF machine = "ACCFSM"
       THEN 100 * 100 * LeaderDistance(obs) < warning_distance_ratio * SafeDistance(obs)
       ELSE 100 * LeaderDistance(obs) < SafeDistance(obs)

\* C35: the three machines decide with safe distance = max(min_gap, time_headway *
\* ego velocity), also at low ego velocity: a cycle that begins in CRUISING, without
\* an emergency and with the ego in the centre of its lane, whose leader is closer
\* than the follow threshold ends in FOLLOWING; and a cycle of LKAACCFSM or
\* HighwayPilotFSM that begins in FOLLOWING with a leader closer than 0.8 times the
\* safe distance does not return FASTER.
C35_SafeDistanceFloor ==
    (Called /\ ~Emergency(observation) /\ LateralOffset(observation) = 0)
        => /\ (/\ state_at_entry = Own("CRUISING")
               /\ InsideFollowThreshold(observation))
                 => current_state = Own("FOLLOWING")
           /\ (/\ machine # "ACCFSM"
               /\ state_at_entry = Own("FOLLOWING")
               /\ HasLeader(observation)
               /\ 1000 * LeaderDistance(observation) < 8 * SafeDistance(observation))
                 => action # FASTER


\* the number of state changes made later than t after construction: a record is
\* made when the time of the change before it (its timestamp) plus the time spent
\* in the state left have passed
ChangesSince(t) ==
    Cardinality({i \in DOMAIN transition_history :
                    transition_history[i].timestamp
                      + transition_history[i].time_in_previous_state > t})

\* C36: ACCFSM and LKAACCFSM, given the same observation in every cycle, from
\* every starting state and with every dt, change the current state at most twice;
\* from then on it stays as it is.
C36_NoOscillation ==
    machine \in {"ACCFSM", "LKAACCFSM"} => ChangesSince(WarmUpDt) <= 2

\* C36's case: ACCFSM starts in EMERGENCY_BRAKE, the constant observation moves it
\* to FOLLOWING and on to CRUISING, and cycles later it is still in CRUISING.
C36_Witness ==
    /\ machine = "ACCFSM"
    /\ ChangesSince(WarmUpDt) = 2
    /\ Len(transition_history) = 3
    /\ transition_history[1].to_state = "EMERGENCY_BRAKE"
    /\ transition_history[2].to_state = "FOLLOWING"
    /\ current_state = ACC("CRUISING")
    /\ state_at_entry = ACC("CRUISING")
    /\ time_in_state >= 100


\* the command of a cruise control with a dead zone of the given half-width
\* around target_velocity
DeadZoneCommand(ego_velocity, half_width) ==
    IF target_velocity - ego_velocity > half_width THEN FASTER
    ELSE IF target_velocity - ego_velocity < -half_width THEN SLOWER
    ELSE IDLE

\* the ego velocities from 28.5 to 31.5 m/s in steps of 0.1 m/s
VelocitiesNearTarget == {target_velocity - 150 + 10 * k : k \in 0..30}

\* every ACCFSM cycle that begins and ends in CRUISING returns the candidate
\* command of the dead zone given, after the action smoothing: the last command is
\* held while the candidate differs from it and the hold timer, with this call's
\* dt, is below min_action_hold
CruisingCommandRule(half_width) ==
    (machine = "ACCFSM" /\ current_state = ACC("CRUISING") /\ current_state' = ACC("CRUISING"))
        => LET candidate == DeadZoneCommand(observation'.ego.velocity, half_width)
           IN  action' = IF /\ candidate # last_action
                            /\ action_hold_time + Dt < min_action_hold
                         THEN last_action ELSE candidate

\* C37: in ACCFSM in CRUISING, with no leader inside the follow threshold, the
\* candidate command is IDLE whenever the ego velocity is within 1 m/s of
\* target_velocity, FASTER when it is more than 1 m/s below and SLOWER when it is
\* more than 1 m/s above.
C37_DeadZone ==
    [][CruisingCommandRule(100)]_vars

\* C37 as amended: the dead zone is 0.5 m/s on either side of target_velocity: IDLE
\* within 0.5 m/s, FASTER when the ego is more than 0.5 m/s below the target and
\* SLOWER when it is more than 0.5 m/s above.
C37_DeadZoneHalf ==
    [][/\ CruisingCommandRule(50)
       /\ \A v \in VelocitiesNearTarget : ACC_cruise_control(v) = DeadZoneCommand(v, 50)]_vars

\* C37's case: the ego cruises 0.7 m/s below the target, the hold has run out, and
\* the cycle returns FASTER.
C37_Witness ==
    /\ machine = "ACCFSM"
    /\ state_at_entry = ACC("CRUISING")
    /\ current_state = ACC("CRUISING")
    /\ target_velocity - observation.ego.velocity = 70
    /\ action = FASTER
    /\ command_change.since = 0


\* C38: in every machine a cycle that ends in EMERGENCY_BRAKE returns SLOWER or
\* IDLE; and whenever ACCFSM is in EMERGENCY_BRAKE its action-smoothing memory
\* holds SLOWER or IDLE, so that a held command is one of the two as well.
C38_BrakingNeverAccelerates ==
    (Called /\ current_state.value = "EMERGENCY_BRAKE")
        => /\ action \in {SLOWER, IDLE}
           /\ machine = "ACCFSM" => last_action \in {SLOWER, IDLE}

\* C38's case: ACCFSM stays in EMERGENCY_BRAKE in a cycle without an emergency
\* condition, which runs the braking handler and the action smoothing, less than
\* min_action_hold after the memory was set, and returns SLOWER.
C38_Witness ==
    /\ machine = "ACCFSM"
    /\ state_at_entry = ACC("EMERGENCY_BRAKE")
    /\ current_state = ACC("EMERGENCY_BRAKE")
    /\ ~(EmergencyA(observation) \/ EmergencyB(observation))
    /\ action_hold_time > 0
    /\ action_hold_time < min_action_hold
    /\ action = SLOWER


\* C39: in every machine one update appends at most one transition record (a
\* transition of a priority level is not followed by one of the state handler in
\* the same cycle); hence every record has a positive time in the previous state,
\* and the from-state of each record is the to-state of the record before it (the
\* initial state CRUISING for the first).
C39_OneTransitionPerCycle ==
    /\ [][Len(transition_history') <= Len(transition_history) + 1]_vars
    /\ [](\A i \in DOMAIN transition_history :
             /\ transition_history[i].time_in_previous_state > 0
             /\ transition_history[i].from_state
                  = IF i = 1 THEN "CRUISING" ELSE transition_history[i - 1].to_state)

\* C39's case: LKAACCFSM in FOLLOWING drifts off the centre; the lane position
\* check moves it to LANE_CORRECTION and the handler of that state, run in the same
\* cycle, adds no record: the second record follows the first.
C39_Witness ==
    /\ machine = "LKAACCFSM"
    /\ state_at_entry = LKA("FOLLOWING")
    /\ Abs(LateralOffset(observation)) > lane_center_tolerance
    /\ current_state = LKA("LANE_CORRECTION")
    /\ Len(transition_history) = 2
    /\ transition_history[2].from_state = "FOLLOWING"
    /\ transition_history[2].to_state = "LANE_CORRECTION"
    /\ transition_history[2].time_in_previous_state > 0


\* the sum of the dt values supplied up to and including the cycle that made the
\* i-th record: all the time elapsed, less the time in the current state and the
\* times spent in the states of the later records
TimeOfRecord(i) ==
    LET h == transition_history
        later[j \in i..Len(h)] ==
            IF j = Len(h) THEN 0 ELSE later[j + 1] + h[j + 1].time_in_previous_state
    IN  elapsed - time_in_state - later[i]

\* C40: the timestamp of each transition record is the simulation time at which
\* the transition occurred, the sum of the dt values supplied up to and including
\* the cycle that made it; timestamps do not decrease along the history.
C40_TimestampIsTransitionTime ==
    LET h == transition_history
    IN  /\ \A i \in DOMAIN h : h[i].timestamp = TimeOfRecord(i)
        /\ \A i \in DOMAIN h : i > 1 => h[i - 1].timestamp <= h[i].timestamp

=============================================================================
